---------------------------- MODULE Spec2Model ----------------------------
(***************************************************************************)
(* A model of the EduRTOS kernel core: the Task object (task.cpp), the     *)
(* Scheduler with its dispatcher and deadline-monitor threads              *)
(* (scheduler.cpp) and the Kernel registry (kernel.cpp).                   *)
(*                                                                         *)
(* Task objects live in a heap `obj` (a sequence of records; an object's   *)
(* identity is its index, a TaskPtr is an index, nullptr is NULL).         *)
(* Every comparison of the code against steady_clock::now() is a           *)
(* nondeterministic choice, since a thread may be delayed for any length   *)
(* of time.  The clock itself (now) advances only in the specifications    *)
(* that take Tick steps (SpecTime); in the others every reading of the     *)
(* clock gives the same microsecond and the accounted times stay 0.        *)
(***************************************************************************)
EXTENDS Integers, Sequences, FiniteSets, Bags

\* ------------------------------------------------------------------ bounds
\* Dispatches in one behaviour of Spec: the sum of the tasks' execution_count.
MaxExec == 2
\* Deadline misses in one behaviour of Spec: the sum of the deadline_misses.
MaxMisses == 1
\* The longest interval between two ticks of the monitor in Spec, in ms.
MaxElapsed == 1
\* Deadline misses of the task of SpecPrio.
PrioMaxMisses == 40

\* ------------------------------------------------------- program constants
MAX_RECOVERY_ATTEMPTS == 3
MAX_PRIORITY == 99
UINT8_MAX == 255

NULL == 0

\* A default-constructed steady_clock::time_point: the clock's epoch, which
\* lies before the construction of the Scheduler (time 0 of `now`).
Epoch == -1

\* `now` counts microseconds; a millisecond of it.
MS == 1000

Min(a, b) == IF a < b THEN a ELSE b

\* --------------------------------------------------------- IEEE-754 binary32
\* update_priority computes in float.  A non-negative float is [m, e] with
\* value m * 2^e, where m = 0 or 2^23 <= m < 2^24 (24 significant bits).
\* Every operation rounds to nearest, ties to even, as the hardware does.
F32_HIDDEN == 8388608
F32_LIMIT == 16777216
F32_HALFWORD == 4096

F32Zero == [m |-> 0, e |-> 0]

RECURSIVE F32Norm(_, _)
F32Norm(m, e) ==
    IF m = 0 THEN F32Zero
    ELSE IF m >= F32_HIDDEN THEN [m |-> m, e |-> e]
    ELSE F32Norm(2 * m, e - 1)

\* An integer 0 <= n < 2^24 converts exactly.
F32FromInt(n) == F32Norm(n, 0)

\* Mantissa h (24 bits) followed by the fraction rem/unit of one unit in the
\* last place: round to nearest, ties to even.
F32Round(h, rem, unit, e) ==
    LET up == (2 * rem > unit) \/ (2 * rem = unit /\ h % 2 = 1)
        r  == IF up THEN h + 1 ELSE h
    IN  IF r = F32_LIMIT THEN [m |-> F32_HIDDEN, e |-> e + 1]
        ELSE [m |-> r, e |-> e]

\* The 48-bit product of two mantissas, kept as hi * 2^24 + lo in 12-bit
\* limbs so that no intermediate value exceeds 31 bits.
F32Mul(a, b) ==
    IF a.m = 0 \/ b.m = 0 THEN F32Zero
    ELSE
    LET a1 == a.m \div F32_HALFWORD
        a0 == a.m % F32_HALFWORD
        b1 == b.m \div F32_HALFWORD
        b0 == b.m % F32_HALFWORD
        mid == a1 * b0 + a0 * b1
        low == (mid % F32_HALFWORD) * F32_HALFWORD + a0 * b0
        hi == a1 * b1 + (mid \div F32_HALFWORD) + (low \div F32_LIMIT)
        lo == low % F32_LIMIT
    IN  IF hi >= F32_HIDDEN
        THEN F32Round(hi, lo, F32_LIMIT, a.e + b.e + 24)
        ELSE F32Round(2 * hi + (lo \div F32_HIDDEN), lo % F32_HIDDEN,
                      F32_HIDDEN, a.e + b.e + 23)

\* Sum of two non-negative floats.
F32Add(a, b) ==
    IF a.m = 0 THEN b
    ELSE IF b.m = 0 THEN a
    ELSE
    LET big   == IF a.e >= b.e THEN a ELSE b
        small == IF a.e >= b.e THEN b ELSE a
        d     == big.e - small.e
    IN  IF d > 25 THEN big
        ELSE
        LET unit == 2 ^ d
            s    == big.m + (small.m \div unit)
            r    == small.m % unit
        IN  IF s < F32_LIMIT
            THEN F32Round(s, r, unit, big.e)
            ELSE F32Round(s \div 2, (s % 2) * unit + r, 2 * unit, big.e + 1)

\* static_cast<int>(float): truncation toward zero.
F32ToInt(a) ==
    IF a.m = 0 THEN 0
    ELSE IF a.e >= 0 THEN a.m * (2 ^ a.e)
    ELSE IF -a.e >= 31 THEN 0
    ELSE a.m \div (2 ^ (-a.e))

\* The literal 0.05f = 0x3D4CCCCD = 13421773 * 2^-28.
F32_0_05 == [m |-> 13421773, e |-> -28]

\* floor(n * 2^k / d) and the remainder, by long division, for n < d.
RECURSIVE F32DivBits(_, _, _, _)
F32DivBits(q, r, d, k) ==
    IF k = 0 THEN [q |-> q, r |-> r]
    ELSE IF 2 * r >= d THEN F32DivBits(2 * q + 1, 2 * r - d, d, k - 1)
    ELSE F32DivBits(2 * q, 2 * r, d, k - 1)

\* Quotient of two non-negative floats, the divisor not zero.
F32Div(a, b) ==
    IF a.m = 0 THEN F32Zero
    ELSE IF a.m >= b.m
    THEN LET d == F32DivBits(1, a.m - b.m, b.m, 23)
         IN  F32Round(d.q, d.r, b.m, a.e - b.e - 23)
    ELSE LET d == F32DivBits(0, a.m, b.m, 24)
         IN  F32Round(d.q, d.r, b.m, a.e - b.e - 24)

\* a <= b for two non-negative floats.
F32Le(a, b) ==
    \/ a.m = 0
    \/ b.m # 0 /\ (a.e < b.e \/ (a.e = b.e /\ a.m <= b.m))


\* ---------------------------------------------------------------- the state
VARIABLES
    obj,               \* the Task objects constructed so far (task.hpp:46-56)
    tasks,             \* Kernel::tasks_, name -> TaskPtr (kernel.hpp:17)
    all_tasks,         \* Scheduler::all_tasks_ (scheduler.hpp:35)
    ready_queue,       \* Scheduler::ready_queue_, a bag of TaskPtr (scheduler.hpp:36)
    current_task,      \* Scheduler::current_task_ (scheduler.hpp:37)
    is_running,        \* Scheduler::is_running_ (scheduler.hpp:38)
    force_reschedule,  \* Scheduler::force_reschedule_ (scheduler.hpp:46)
    preemption_mode,   \* Scheduler::preemption_mode_ (scheduler.hpp:45)
    recovery_attempts, \* Scheduler::recovery_attempts_ (scheduler.hpp:56)
    scheduler_mutex,   \* holder of Scheduler::scheduler_mutex_ (scheduler.hpp:41)
    pc,                \* where the dispatcher thread is in schedulerLoop
    mon,               \* where the monitor thread is in deadlineMonitorLoop
    kernel_mutex,      \* holder of Kernel::kernel_mutex_ (kernel.hpp:18)
    task_symbols,      \* Scheduler::task_symbols_ (scheduler.hpp:49)
    adjust_armed,      \* schedulerLoop's static last_priority_adjustment is initialised
    disp,              \* the dispatch in progress: what the dispatcher has done in it
    ret,               \* the last Kernel call by name and how it ended
    now,               \* std::chrono::steady_clock::now(), in microseconds since construction
    idle_start_time,   \* Scheduler::idle_start_time_ (scheduler.hpp:51)
    start_time,        \* schedulerLoop's local start_time (scheduler.cpp:183)
    total_run_time,    \* Scheduler::total_run_time_ (scheduler.hpp:52)
    total_idle_time,   \* Scheduler::total_idle_time_ (scheduler.hpp:53)
    cpu_utilization,   \* Scheduler::cpu_utilization_, a float (scheduler.hpp:50)
    last_schedule_time, \* Scheduler::last_schedule_time_ (scheduler.hpp:44)
    last_check_time,   \* deadlineMonitorLoop's static last_check_time (scheduler.cpp:274)
    mid,               \* the operations on ready_queue_ / all_tasks_ that have begun and not ended
    threads            \* the threads spawned by Scheduler::start: running now (scheduler, monitor) and ever (spawned)

vars == <<obj, tasks, all_tasks, ready_queue, current_task, is_running,
          force_reschedule, preemption_mode, recovery_attempts,
          scheduler_mutex, pc, mon, kernel_mutex, task_symbols, adjust_armed,
          disp, ret, now, idle_start_time, start_time, total_run_time,
          total_idle_time, cpu_utilization, last_schedule_time,
          last_check_time, mid, threads>>

TaskStates == {"READY", "RUNNING", "BLOCKED", "SUSPENDED", "TERMINATED"}
PreemptionModes == {"NONE", "TIME_SLICE", "PRIORITY", "HYBRID"}
Names == {"A", "B"}

\* The names of scenario S2's tasks, and every name the registry is asked for.
ScenarioNames == {"C", "D"}
Registry == Names \cup ScenarioNames

\* The arguments Kernel::createTask is called with in Spec for each name: a
\* low-priority task that is not recoverable and has no deadline, and a
\* high-priority recoverable task of period 1 ms (hence deadline 1 ms).
ProfileOf ==
    [ n \in Names |->
        IF n = "A"
        THEN [priority |-> 10, policy |-> "PREEMPTIVE", period |-> 0,
              deadline |-> 0, recoverable |-> FALSE]
        ELSE [priority |-> 80, policy |-> "PREEMPTIVE", period |-> 1,
              deadline |-> 0, recoverable |-> TRUE] ]

Objs == 1..Len(obj)

\* No dispatch in progress.  Of a dispatch the record keeps the task selected,
\* whether execute() was entered, whether the handler called yield() and threw,
\* and what the recovery test did; yielded_to is a history of the last handler
\* run: the tasks that were READY when it called yield().
NoDispatch ==
    [task |-> NULL, threw |-> FALSE, recovery |-> "none", started |-> FALSE,
     yielded |-> FALSE, yielded_to |-> {}]

\* The record between two dispatches: the history of the last handler is kept
\* until the next handler starts.
AfterDispatch(d) == [NoDispatch EXCEPT !.yielded_to = d.yielded_to]

\* The last call of the Kernel or of the Scheduler from outside and how it
\* ended for its caller: the call, its argument, the TaskPtr returned (NULL
\* for nullptr and for the calls that return no TaskPtr), the text returned
\* (getTaskStateVisualization), and whether the call returned, left by an
\* exception, or blocks its caller for ever.
NoReturn ==
    [op |-> "none", name |-> "", value |-> NULL, text |-> <<>>, outcome |-> "none"]
Returned(op, name, value) ==
    [op |-> op, name |-> name, value |-> value, text |-> <<>>, outcome |-> "returned"]
ReturnedText(op, text) ==
    [op |-> op, name |-> "", value |-> NULL, text |-> text, outcome |-> "returned"]
Thrown(op, name) ==
    [op |-> op, name |-> name, value |-> NULL, text |-> <<>>, outcome |-> "thrown"]
Blocked(op, name) ==
    [op |-> op, name |-> name, value |-> NULL, text |-> <<>>, outcome |-> "blocked"]

\* An operation on ready_queue_ / all_tasks_ that has taken scheduler_mutex_
\* and not released it: addTask, removeTask or adjustPriorities, its argument
\* and the task it works on.
Mid(op, name, task) == [op |-> op, name |-> name, task |-> task]

\* No thread has been spawned.  scheduler and monitor count the threads whose
\* function has not returned, spawned the std::thread objects constructed.
NoThreads == [scheduler |-> 0, monitor |-> 0, spawned |-> 0]

\* ------------------------------------------------------------------- Task
\* TaskBase::TaskBase: the priority is clamped from above only.
TaskBase(name, priority, policy, period, deadline, recoverable) ==
    [ name             |-> name,
      policy           |-> policy,
      base_priority    |-> Min(priority, MAX_PRIORITY),
      dynamic_priority |-> Min(priority, MAX_PRIORITY),
      period           |-> period,
      deadline         |-> IF deadline > 0 THEN deadline ELSE period,
      recoverable      |-> recoverable,
      state            |-> "READY",
      execution_count  |-> 0,
      deadline_misses  |-> 0,
      deadline_counter |-> 0,
      last_execution   |-> Epoch,
      total_execution_time   |-> 0,
      average_execution_time |-> 0 ]

\* A variant of updatePriority whose boost is that of a single miss, whatever
\* deadline_misses is; C10_BoostFormula tells it from the code.
updatePriority_OneMiss(t) ==
    IF t.deadline_misses > 0
    THEN LET priority_boost == F32Mul(F32FromInt(t.base_priority), F32_0_05)
             sum == F32ToInt(F32Add(F32FromInt(t.base_priority), priority_boost))
         IN  [t EXCEPT !.dynamic_priority = Min(MAX_PRIORITY, sum) % (UINT8_MAX + 1)]
    ELSE [t EXCEPT !.dynamic_priority = t.base_priority]

\* A variant of updatePriority that raises the priority the task has now, not
\* its base priority; C22_UpdatePriorityIdempotent tells it from the code.
updatePriority_Accumulates(t) ==
    IF t.deadline_misses > 0
    THEN [t EXCEPT !.dynamic_priority = Min(MAX_PRIORITY, t.dynamic_priority + 1)]
    ELSE [t EXCEPT !.dynamic_priority = t.base_priority]

\* TaskBase::updatePriority, on a task record.
updatePriority(t) ==
    IF t.deadline_misses > 0
    THEN LET priority_boost ==
                 F32Mul(F32Mul(F32FromInt(t.base_priority), F32_0_05),
                        F32FromInt(t.deadline_misses))
             sum == F32ToInt(F32Add(F32FromInt(t.base_priority), priority_boost))
         IN  [t EXCEPT !.dynamic_priority = Min(MAX_PRIORITY, sum) % (UINT8_MAX + 1)]
    ELSE [t EXCEPT !.dynamic_priority = t.base_priority]

\* TaskBase::recordDeadlineMiss.
recordDeadlineMiss(t) ==
    updatePriority([t EXCEPT !.deadline_misses = @ + 1])

\* A variant of updateDeadlineCounter without the test on deadline_;
\* C11_NoDeadlineNoMiss tells it from the code.
updateDeadlineCounter_Unguarded(t, elapsed) ==
    IF t.deadline_counter + elapsed > t.deadline
    THEN [recordDeadlineMiss(t) EXCEPT !.deadline_counter = 0]
    ELSE [t EXCEPT !.deadline_counter = @ + elapsed]

\* TaskBase::updateStatistics, the execution time in microseconds.
updateStatistics(t, execution_time) ==
    LET total == t.total_execution_time + execution_time
    IN  IF t.execution_count > 0
        THEN [t EXCEPT !.total_execution_time = total,
                       !.average_execution_time = total \div t.execution_count]
        ELSE [t EXCEPT !.total_execution_time = total]

\* A variant of updateDeadlineCounter that counts one miss for every whole
\* deadline the counter has run past and keeps the remainder;
\* C30_DeadlineCounter tells it from the code.
updateDeadlineCounter_PerDeadline(t, elapsed) ==
    IF t.deadline > 0
    THEN LET sum == t.deadline_counter + elapsed
         IN  IF sum > t.deadline
             THEN [updatePriority([t EXCEPT !.deadline_misses = @ + (sum \div t.deadline)])
                     EXCEPT !.deadline_counter = sum % t.deadline]
             ELSE [t EXCEPT !.deadline_counter = sum]
    ELSE t

\* TaskBase::updateDeadlineCounter.
updateDeadlineCounter(t, elapsed) ==
    IF t.deadline > 0
    THEN IF t.deadline_counter + elapsed > t.deadline
         THEN [recordDeadlineMiss(t) EXCEPT !.deadline_counter = 0]
         ELSE [t EXCEPT !.deadline_counter = @ + elapsed]
    ELSE t

\* TaskBase::isDeadlineApproaching.
isDeadlineApproaching(t) ==
    IF t.deadline = 0 THEN FALSE
    ELSE t.deadline_counter > (t.deadline * 4) \div 5

\* TaskBase::suspend.
suspend(t) ==
    IF t.state # "TERMINATED" THEN [t EXCEPT !.state = "SUSPENDED"] ELSE t

\* TaskBase::resume without the test of the state: any task becomes READY.
\* C18_SuspendThenResume tells it from the code.
resume_Unguarded(t) == [t EXCEPT !.state = "READY"]

\* TaskBase::resume.
resume(t) ==
    IF t.state = "SUSPENDED" THEN [t EXCEPT !.state = "READY"] ELSE t

\* TaskBase::terminate.
terminate(t) == [t EXCEPT !.state = "TERMINATED"]

\* TaskBase::setState.
setState(t, s) == [t EXCEPT !.state = s]

\* TaskBase::execute up to the call of the handler, without
\* statistics_.execution_count++.  C21_ExecutionCount tells it from the code.
executeBegin_NoCount(t) ==
    [t EXCEPT !.state = "RUNNING",
              !.last_execution = now,
              !.deadline_counter = 0]

\* TaskBase::execute up to the call of the handler.
executeBegin(t) ==
    [t EXCEPT !.state = "RUNNING",
              !.last_execution = now,
              !.execution_count = @ + 1,
              !.deadline_counter = 0]

\* A variant of the end of execute() that does not write state_ after a
\* normal return; C2_AtMostOneRunning tells it from the code.
executeEnd_KeepsRunning(t, threw) ==
    IF threw
    THEN IF ~t.recoverable
         THEN [t EXCEPT !.state = "TERMINATED"]
         ELSE [t EXCEPT !.state = "READY"]
    ELSE t

\* A variant of the end of execute() that makes every failed task READY,
\* recoverable or not; C7_NonRecoverableFailureIsFinal tells it from the code.
executeEnd_FailureReady(t, threw) ==
    [t EXCEPT !.state = "READY"]

\* TaskBase::execute from the handler's end: the catch block, or the
\* assignment after the try.
executeEnd(t, threw) ==
    IF threw
    THEN IF ~t.recoverable
         THEN [t EXCEPT !.state = "TERMINATED"]
         ELSE [t EXCEPT !.state = "READY"]
    ELSE [t EXCEPT !.state = "READY"]


\* -------------------------------------------------------------- Scheduler
\* The process is alive: no thread has let an exception escape.
Alive == pc # "aborted"

Push(q, o) == q (+) SetToBag({o})
Pop(q, o) == q (-) SetToBag({o})

\* The task objects of all_tasks_, in order.
AllTasks == { all_tasks[i] : i \in 1..Len(all_tasks) }

\* A variant of the queue's order with TaskPriorityCompare inverted: the top
\* is an entry of least dynamic priority; C13_YieldThenOther tells it from
\* the code.
Top_Lowest(h, q) ==
    { o \in BagToSet(q) :
        \A p \in BagToSet(q) : h[o].dynamic_priority <= h[p].dynamic_priority }

\* A variant of the queue without order: the top is any entry;
\* C14_HighestFirst tells it from the code.
Top_Unordered(h, q) == BagToSet(q)

\* priority_queue::top under TaskPriorityCompare, the task objects being h:
\* an entry of greatest dynamic priority; which one among equals is the
\* implementation's choice.
Top(h, q) ==
    { o \in BagToSet(q) :
        \A p \in BagToSet(q) : h[p].dynamic_priority <= h[o].dynamic_priority }

\* The loop of selectNextTask that refills an empty queue from all_tasks_.
Rebuild(h, q) ==
    IF BagToSet(q) = {}
    THEN SetToBag({ o \in AllTasks : h[o].state = "READY" })
    ELSE q

\* Scheduler::selectNextTask without the second look at the state: the top
\* of the queue is returned whatever its state.  C25_SelectsReadyOrNull
\* tells it from the code.
selectNextTask_Unchecked(h, q) ==
    LET q1 == Rebuild(h, q)
    IN  IF BagToSet(q1) = {}
        THEN { [next |-> NULL, queue |-> q1] }
        ELSE { [next |-> o, queue |-> Pop(q1, o)] : o \in Top(h, q1) }

\* Scheduler::selectNextTask on ready queue q: the set of possible results,
\* each the task returned (or NULL) and the queue left behind.
RECURSIVE selectNextTask(_, _)
selectNextTask(h, q) ==
    LET q1 == Rebuild(h, q)
    IN  IF BagToSet(q1) = {}
        THEN { [next |-> NULL, queue |-> q1] }
        ELSE UNION { IF h[o].state # "READY"
                     THEN selectNextTask(h, Pop(q1, o))
                     ELSE { [next |-> o, queue |-> Pop(q1, o)] } : o \in Top(h, q1) }

\* Scheduler::checkDeadlines: the tasks it examines.  Whether such a task is
\* overdue (now - last_execution > period + deadline) depends on the clock.
DeadlineChecked ==
    { o \in AllTasks : /\ obj[o].deadline > 0
                       /\ obj[o].period > 0
                       /\ obj[o].execution_count > 0 }

RECURSIVE SumOver(_, _, _)
SumOver(h, i, field) ==
    IF i > Len(h) THEN 0 ELSE h[i][field] + SumOver(h, i + 1, field)

\* The dispatches so far, and the deadline misses so far, over the heap h.
Executions(h) == SumOver(h, 1, "execution_count")
Misses(h) == SumOver(h, 1, "deadline_misses")

\* A variant of checkDeadlines that passes over a task that has a miss on
\* record already; C31_CheckDeadlines tells it from the code.
checkDeadlines_OncePerInterval ==
    { o \in AllTasks :
        /\ obj[o].deadline > 0
        /\ obj[o].period > 0
        /\ obj[o].last_execution > Epoch
        /\ (now - obj[o].last_execution) \div MS > obj[o].period + obj[o].deadline
        /\ obj[o].deadline_misses = 0 }

\* Scheduler::checkDeadlines by the clock: the tasks for which it calls
\* recordDeadlineMiss, the difference of the time points cast to whole
\* milliseconds.
checkDeadlines ==
    { o \in AllTasks :
        /\ obj[o].deadline > 0
        /\ obj[o].period > 0
        /\ obj[o].last_execution > Epoch
        /\ (now - obj[o].last_execution) \div MS > obj[o].period + obj[o].deadline }

\* The heap after recordDeadlineMiss on every task of `late`.
MissAll(late) ==
    [ o \in Objs |-> IF o \in late THEN recordDeadlineMiss(obj[o]) ELSE obj[o] ]

\* A variant of attemptTaskRecovery that refuses only above
\* MAX_RECOVERY_ATTEMPTS; C8_RecoveryBudget tells it from the code.
attemptTaskRecovery_OffByOne(h, q, n, o) ==
    IF ~h[o].recoverable
    THEN [ok |-> FALSE, obj |-> h, queue |-> q, attempts |-> n]
    ELSE IF n > MAX_RECOVERY_ATTEMPTS
    THEN [ok |-> FALSE, obj |-> h, queue |-> q, attempts |-> n]
    ELSE [ok |-> TRUE,
          obj |-> [h EXCEPT ![o] = setState(h[o], "READY")],
          queue |-> Push(q, o),
          attempts |-> n + 1]

\* Scheduler::attemptTaskRecovery(o) on heap h: [ok, obj, queue, attempts].
attemptTaskRecovery(h, q, n, o) ==
    IF ~h[o].recoverable
    THEN [ok |-> FALSE, obj |-> h, queue |-> q, attempts |-> n]
    ELSE IF n >= MAX_RECOVERY_ATTEMPTS
    THEN [ok |-> FALSE, obj |-> h, queue |-> q, attempts |-> n]
    ELSE [ok |-> TRUE,
          obj |-> [h EXCEPT ![o] = setState(h[o], "READY")],
          queue |-> Push(q, o),
          attempts |-> n + 1]

\* The symbol Scheduler::addTask assigns to the n-th entry of all_tasks_:
\* the n-th letter, or '#' (0 here) beyond 'Z'.
SYMBOLS == 26
SymbolFor(n) == IF n <= SYMBOLS THEN n ELSE 0


\* Scheduler::addTask(o) and Scheduler::removeTask(name), as the new values
\* of the variables they write.
addTask(o, h) ==
    /\ all_tasks' = Append(all_tasks, o)
    /\ ready_queue' = IF h[o].state = "READY" THEN Push(ready_queue, o)
                      ELSE ready_queue
    /\ task_symbols' = [ x \in DOMAIN task_symbols \cup {o} |->
                           IF x = o THEN SymbolFor(Len(all_tasks) + 1)
                           ELSE task_symbols[x] ]

\* The first entry of all_tasks_ with the name, or 0 (find_if reaching end()).
FindIndex(name) ==
    LET hits == { i \in 1..Len(all_tasks) : obj[all_tasks[i]].name = name }
    IN  IF hits = {} THEN 0
        ELSE CHOOSE i \in hits : \A j \in hits : i <= j

Erase(seq, i) == SubSeq(seq, 1, i - 1) \o SubSeq(seq, i + 1, Len(seq))

\* Scheduler::removeTask without all_tasks_.erase(it): the task is terminated
\* and stays in the list.  C17_RemoveThenRecreate tells it from the code.
removeTask_KeepsListed(name) ==
    LET i == FindIndex(name)
    IN  IF i = 0
        THEN UNCHANGED <<obj, all_tasks, task_symbols>>
        ELSE /\ obj' = [obj EXCEPT ![all_tasks[i]] = terminate(@)]
             /\ UNCHANGED <<all_tasks, task_symbols>>

removeTask(name) ==
    LET i == FindIndex(name)
    IN  IF i = 0
        THEN UNCHANGED <<obj, all_tasks, task_symbols>>
        ELSE /\ obj' = [obj EXCEPT ![all_tasks[i]] = terminate(@)]
             /\ all_tasks' = Erase(all_tasks, i)
             /\ task_symbols' = [ x \in DOMAIN task_symbols \ {all_tasks[i]} |->
                                    task_symbols[x] ]

\* Scheduler::updateCpuUtilization with the idle time as the dividend.
\* C20_CpuUtilization tells it from the code.
updateCpuUtilization_Idle(run, idle) ==
    IF run + idle > 0
    THEN F32Mul(F32Div(F32FromInt(idle), F32FromInt(run + idle)), F32FromInt(100))
    ELSE F32Zero

\* Scheduler::updateCpuUtilization: the new cpu_utilization_ for the totals
\* run and idle (microsecond counts); the counts convert to float, the
\* quotient and the product with 100.0f are float operations.
updateCpuUtilization(run, idle) ==
    IF run + idle > 0
    THEN F32Mul(F32Div(F32FromInt(run), F32FromInt(run + idle)), F32FromInt(100))
    ELSE F32Zero

\* ------------------------------------------------------------ Kernel calls
\* Kernel::createTask with a name that is free.
KernelCreateTask(name, pr) ==
    /\ Alive
    /\ kernel_mutex = "free"
    /\ scheduler_mutex = "free"
    /\ tasks[name] = NULL
    /\ LET o == Len(obj) + 1
           h == Append(obj, TaskBase(name, pr.priority, pr.policy, pr.period,
                                     pr.deadline, pr.recoverable))
       IN  /\ obj' = h
           /\ tasks' = [tasks EXCEPT ![name] = o]
           /\ addTask(o, h)
           /\ ret' = Returned("createTask", name, o)
    /\ UNCHANGED <<current_task, is_running, force_reschedule, preemption_mode,
                   recovery_attempts, scheduler_mutex, pc, mon, kernel_mutex,
                   adjust_armed, disp, now, idle_start_time, start_time,
                   total_run_time, total_idle_time, cpu_utilization,
                   last_schedule_time, last_check_time, mid, threads>>

\* Kernel::createTask without the test of lines 66-70: the name is given to a
\* new task although the registry holds it.  C16_DuplicateCreateRefused
\* tells it from the code.
KernelCreateDuplicate_Overwrites(name) ==
    /\ Alive
    /\ kernel_mutex = "free"
    /\ scheduler_mutex = "free"
    /\ tasks[name] # NULL
    /\ LET o == Len(obj) + 1
           h == Append(obj, TaskBase(name, 1, "PREEMPTIVE", 0, 0, FALSE))
       IN  /\ obj' = h
           /\ tasks' = [tasks EXCEPT ![name] = o]
           /\ addTask(o, h)
           /\ ret' = Returned("createTask", name, o)
    /\ UNCHANGED <<current_task, is_running, force_reschedule, preemption_mode,
                   recovery_attempts, scheduler_mutex, pc, mon, kernel_mutex,
                   adjust_armed, disp, now, idle_start_time, start_time,
                   total_run_time, total_idle_time, cpu_utilization,
                   last_schedule_time, last_check_time, mid, threads>>

\* Kernel::createTask with a name already in the registry: nullptr.
KernelCreateDuplicate(name) ==
    /\ Alive
    /\ kernel_mutex = "free"
    /\ tasks[name] # NULL
    /\ ret' = Returned("createTask", name, NULL)
    /\ UNCHANGED <<obj, tasks, all_tasks, ready_queue, current_task, is_running,
                   force_reschedule, preemption_mode, recovery_attempts,
                   scheduler_mutex, pc, mon, kernel_mutex, task_symbols,
                   adjust_armed, disp, now, idle_start_time, start_time,
                   total_run_time, total_idle_time, cpu_utilization,
                   last_schedule_time, last_check_time, mid, threads>>

\* Kernel::removeTask without tasks_.erase(it): the name stays registered.
\* C37_RegistryMatchesTaskList tells it from the code.
KernelRemoveTask_KeepsRegistered(name) ==
    /\ Alive
    /\ kernel_mutex = "free"
    /\ scheduler_mutex = "free"
    /\ tasks[name] # NULL
    /\ removeTask(name)
    /\ tasks' = tasks
    /\ ret' = Returned("removeTask", name, NULL)
    /\ UNCHANGED <<ready_queue, current_task, is_running, force_reschedule,
                   preemption_mode, recovery_attempts, scheduler_mutex, pc, mon,
                   kernel_mutex, adjust_armed, disp, now, idle_start_time,
                   start_time, total_run_time, total_idle_time,
                   cpu_utilization, last_schedule_time, last_check_time, mid,
                   threads>>

\* Kernel::removeTask with a registered name.
KernelRemoveTask(name) ==
    /\ Alive
    /\ kernel_mutex = "free"
    /\ scheduler_mutex = "free"
    /\ tasks[name] # NULL
    /\ removeTask(name)
    /\ tasks' = [tasks EXCEPT ![name] = NULL]
    /\ ret' = Returned("removeTask", name, NULL)
    /\ UNCHANGED <<ready_queue, current_task, is_running, force_reschedule,
                   preemption_mode, recovery_attempts, scheduler_mutex, pc, mon,
                   kernel_mutex, adjust_armed, disp, now, idle_start_time,
                   start_time, total_run_time, total_idle_time,
                   cpu_utilization, last_schedule_time, last_check_time, mid,
                   threads>>

\* Kernel::removeTask with a name that is not in the registry: the message,
\* and nothing else.
KernelRemoveUnknown(name) ==
    /\ Alive
    /\ kernel_mutex = "free"
    /\ tasks[name] = NULL
    /\ ret' = Returned("removeTask", name, NULL)
    /\ UNCHANGED <<obj, tasks, all_tasks, ready_queue, current_task, is_running,
                   force_reschedule, preemption_mode, recovery_attempts,
                   scheduler_mutex, pc, mon, kernel_mutex, task_symbols,
                   adjust_armed, disp, now, idle_start_time, start_time,
                   total_run_time, total_idle_time, cpu_utilization,
                   last_schedule_time, last_check_time, mid, threads>>

\* Kernel::getTask: the registry's entry, nullptr when there is none.
KernelGetTask(name) ==
    /\ Alive
    /\ kernel_mutex = "free"
    /\ ret' = Returned("getTask", name, tasks[name])
    /\ UNCHANGED <<obj, tasks, all_tasks, ready_queue, current_task, is_running,
                   force_reschedule, preemption_mode, recovery_attempts,
                   scheduler_mutex, pc, mon, kernel_mutex, task_symbols,
                   adjust_armed, disp, now, idle_start_time, start_time,
                   total_run_time, total_idle_time, cpu_utilization,
                   last_schedule_time, last_check_time, mid, threads>>

\* Scheduler::findTask, called from outside: the first task of all_tasks_
\* with the name, nullptr when there is none.
SchedulerFindTask(name) ==
    /\ Alive
    /\ scheduler_mutex = "free"
    /\ ret' = Returned("findTask", name,
                       IF FindIndex(name) = 0 THEN NULL
                       ELSE all_tasks[FindIndex(name)])
    /\ UNCHANGED <<obj, tasks, all_tasks, ready_queue, current_task, is_running,
                   force_reschedule, preemption_mode, recovery_attempts,
                   scheduler_mutex, pc, mon, kernel_mutex, task_symbols,
                   adjust_armed, disp, now, idle_start_time, start_time,
                   total_run_time, total_idle_time, cpu_utilization,
                   last_schedule_time, last_check_time, mid, threads>>

\* The symbols getTaskStateVisualization gives out when task_symbols_ is
\* empty: 'A', 'B', ... in the order of all_tasks_ (symbol++ on a char: the
\* 27th is no letter).
FreshSymbols == [ o \in AllTasks |-> CHOOSE i \in 1..Len(all_tasks) : all_tasks[i] = o ]

\* Scheduler::getTaskStateVisualization, called from outside: for every task
\* of all_tasks_, in order, its symbol ('?', here -1, when it has none), its
\* state, its name and its dynamic priority; the empty text stands for "No
\* tasks registered in the scheduler.".
GetTaskStateVisualization ==
    /\ Alive
    /\ scheduler_mutex = "free"
    /\ LET symbols == IF all_tasks # <<>> /\ DOMAIN task_symbols = {}
                      THEN FreshSymbols ELSE task_symbols
       IN  /\ task_symbols' = symbols
           /\ ret' = ReturnedText("getTaskStateVisualization",
                        [ i \in 1..Len(all_tasks) |->
                            LET o == all_tasks[i]
                            IN  [symbol   |-> IF o \in DOMAIN symbols
                                              THEN symbols[o] ELSE -1,
                                 state    |-> obj[o].state,
                                 name     |-> obj[o].name,
                                 priority |-> obj[o].dynamic_priority] ])
    /\ UNCHANGED <<obj, tasks, all_tasks, ready_queue, current_task, is_running,
                   force_reschedule, preemption_mode, recovery_attempts,
                   scheduler_mutex, pc, mon, kernel_mutex, adjust_armed, disp,
                   now, idle_start_time, start_time, total_run_time,
                   total_idle_time, cpu_utilization, last_schedule_time,
                   last_check_time, mid, threads>>

\* Kernel::suspendTask and Kernel::resumeTask lock kernel_mutex_ and then call
\* getTask, which locks kernel_mutex_ again in the same thread: behaviour
\* undefined for a std::mutex.  The caller blocks for ever with the mutex
\* held, or the second lock() throws std::system_error, which unwinds through
\* the first lock_guard to the caller (in both the call of suspend() /
\* resume() on the task is not reached), or the mutex counts the owner's
\* second lock() and the call goes on: suspend() / resume() on the task that
\* getTask found, if any.
KernelRelock(op, name) ==
    /\ Alive
    /\ kernel_mutex = "free"
    /\ \/ /\ kernel_mutex' = "deadlocked"
          /\ ret' = Blocked(op, name)
          /\ UNCHANGED obj
       \/ /\ ret' = Thrown(op, name)
          /\ UNCHANGED <<kernel_mutex, obj>>
       \/ /\ ret' = Returned(op, name, NULL)
          /\ obj' = IF tasks[name] = NULL THEN obj
                    ELSE [obj EXCEPT ![tasks[name]] =
                             IF op = "suspendTask" THEN suspend(@) ELSE resume(@)]
          /\ UNCHANGED kernel_mutex
    /\ UNCHANGED <<tasks, all_tasks, ready_queue, current_task, is_running,
                   force_reschedule, preemption_mode, recovery_attempts,
                   scheduler_mutex, pc, mon, task_symbols, adjust_armed, disp,
                   now, idle_start_time, start_time, total_run_time,
                   total_idle_time, cpu_utilization, last_schedule_time,
                   last_check_time, mid, threads>>

KernelSuspendTask(name) == KernelRelock("suspendTask", name)

KernelResumeTask(name) == KernelRelock("resumeTask", name)

\* Kernel::start -> a Scheduler::start that spawns its two threads without
\* testing is_running_.
KernelStart_Unguarded ==
    /\ Alive
    /\ kernel_mutex = "free"
    /\ is_running' = TRUE
    /\ pc' = "top"
    /\ mon' = "check"
    /\ threads' = [scheduler |-> threads.scheduler + 1,
                    monitor   |-> threads.monitor + 1,
                    spawned   |-> threads.spawned + 2]
    /\ last_schedule_time' = now
    /\ UNCHANGED <<obj, tasks, all_tasks, ready_queue, current_task,
                   force_reschedule, preemption_mode, recovery_attempts,
                   scheduler_mutex, kernel_mutex, task_symbols, adjust_armed, disp,
                   ret, now, idle_start_time, start_time, total_run_time,
                   total_idle_time, cpu_utilization, last_check_time, mid>>

\* Kernel::start -> Scheduler::start on a stopped scheduler: is_running_ is
\* exchanged to true and the two threads are spawned.
KernelStart ==
    /\ Alive
    /\ kernel_mutex = "free"
    /\ ~is_running
    /\ is_running' = TRUE
    /\ pc' = "top"
    /\ mon' = "check"
    /\ threads' = [scheduler |-> threads.scheduler + 1,
                    monitor   |-> threads.monitor + 1,
                    spawned   |-> threads.spawned + 2]
    /\ last_schedule_time' = now
    /\ UNCHANGED <<obj, tasks, all_tasks, ready_queue, current_task,
                   force_reschedule, preemption_mode, recovery_attempts,
                   scheduler_mutex, kernel_mutex, task_symbols, adjust_armed, disp,
                   ret, now, idle_start_time, start_time, total_run_time,
                   total_idle_time, cpu_utilization, last_check_time, mid>>

\* Kernel::stop -> Scheduler::stop, up to the joins.
KernelStop ==
    /\ Alive
    /\ kernel_mutex = "free"
    /\ is_running
    /\ is_running' = FALSE
    /\ kernel_mutex' = "stop"
    /\ UNCHANGED <<obj, tasks, all_tasks, ready_queue, current_task,
                   force_reschedule, preemption_mode, recovery_attempts,
                   scheduler_mutex, pc, mon, task_symbols, adjust_armed, disp,
                   ret, now, idle_start_time, start_time, total_run_time,
                   total_idle_time, cpu_utilization, last_schedule_time,
                   last_check_time, mid, threads>>

\* Scheduler::stop: both joins have returned.
KernelStopJoined ==
    /\ Alive
    /\ kernel_mutex = "stop"
    /\ pc = "exited"
    /\ mon = "exited"
    /\ pc' = "none"
    /\ mon' = "none"
    /\ kernel_mutex' = "free"
    /\ UNCHANGED <<obj, tasks, all_tasks, ready_queue, current_task, is_running,
                   force_reschedule, preemption_mode, recovery_attempts,
                   scheduler_mutex, task_symbols, adjust_armed, disp, ret, now,
                   idle_start_time, start_time, total_run_time,
                   total_idle_time, cpu_utilization, last_schedule_time,
                   last_check_time, mid, threads>>

\* Kernel::start -> Scheduler::start on a running scheduler: the exchange
\* returns true and nothing is spawned.  The call is recorded in ret.
KernelStartRunning ==
    /\ Alive
    /\ kernel_mutex = "free"
    /\ is_running
    /\ ret' = Returned("start", "", NULL)
    /\ UNCHANGED <<obj, tasks, all_tasks, ready_queue, current_task, is_running,
                   force_reschedule, preemption_mode, recovery_attempts,
                   scheduler_mutex, pc, mon, kernel_mutex, task_symbols,
                   adjust_armed, disp, now, idle_start_time, start_time,
                   total_run_time, total_idle_time, cpu_utilization,
                   last_schedule_time, last_check_time, mid, threads>>

\* Kernel::stop -> Scheduler::stop on a stopped scheduler: the exchange
\* returns false, nothing is notified or joined.  The call is recorded in ret.
KernelStopStopped ==
    /\ Alive
    /\ kernel_mutex = "free"
    /\ ~is_running
    /\ ret' = Returned("stop", "", NULL)
    /\ UNCHANGED <<obj, tasks, all_tasks, ready_queue, current_task, is_running,
                   force_reschedule, preemption_mode, recovery_attempts,
                   scheduler_mutex, pc, mon, kernel_mutex, task_symbols,
                   adjust_armed, disp, now, idle_start_time, start_time,
                   total_run_time, total_idle_time, cpu_utilization,
                   last_schedule_time, last_check_time, mid, threads>>

\* ------------------------------------------------- calls on a task handle
\* TaskBase::suspend through a TaskPtr, as the fault injector calls it.
TaskSuspend(o) ==
    /\ Alive
    /\ obj' = [obj EXCEPT ![o] = suspend(@)]
    /\ UNCHANGED <<tasks, all_tasks, ready_queue, current_task, is_running,
                   force_reschedule, preemption_mode, recovery_attempts,
                   scheduler_mutex, pc, mon, kernel_mutex, task_symbols,
                   adjust_armed, disp, ret, now, idle_start_time, start_time,
                   total_run_time, total_idle_time, cpu_utilization,
                   last_schedule_time, last_check_time, mid, threads>>

\* TaskBase::resume through a TaskPtr.
TaskResume(o) ==
    /\ Alive
    /\ obj' = [obj EXCEPT ![o] = resume(@)]
    /\ UNCHANGED <<tasks, all_tasks, ready_queue, current_task, is_running,
                   force_reschedule, preemption_mode, recovery_attempts,
                   scheduler_mutex, pc, mon, kernel_mutex, task_symbols,
                   adjust_armed, disp, ret, now, idle_start_time, start_time,
                   total_run_time, total_idle_time, cpu_utilization,
                   last_schedule_time, last_check_time, mid, threads>>

\* Scheduler::setPreemptionMode.
SetPreemptionMode(m) ==
    /\ Alive
    /\ preemption_mode' = m
    /\ UNCHANGED <<obj, tasks, all_tasks, ready_queue, current_task, is_running,
                   force_reschedule, recovery_attempts, scheduler_mutex, pc, mon,
                   kernel_mutex, task_symbols, adjust_armed, disp, ret, now,
                   idle_start_time, start_time, total_run_time,
                   total_idle_time, cpu_utilization, last_schedule_time,
                   last_check_time, mid, threads>>


\* ------------------------------------------------- the dispatcher thread
\* schedulerLoop, `while (is_running_)` read false: the thread returns.
DispExit ==
    /\ Alive
    /\ pc = "top"
    /\ ~is_running
    /\ pc' = "exited"
    /\ threads' = [threads EXCEPT !.scheduler = @ - 1]
    /\ UNCHANGED <<obj, tasks, all_tasks, ready_queue, current_task, is_running,
                   force_reschedule, preemption_mode, recovery_attempts,
                   scheduler_mutex, mon, kernel_mutex, task_symbols,
                   adjust_armed, disp, ret, now, idle_start_time, start_time,
                   total_run_time, total_idle_time, cpu_utilization,
                   last_schedule_time, last_check_time, mid>>

\* A variant of the dispatcher's selection that does not unlock before the
\* task runs; C33_HandlerRunsUnlocked tells it from the code.
DispSelectLate_KeepsLock(lates) ==
    /\ Alive
    /\ pc = "top"
    /\ is_running
    /\ scheduler_mutex = "free"
    /\ scheduler_mutex' = "dispatcher"
    /\ \E late \in lates :
         /\ obj' = MissAll(late)
         /\ \E r \in selectNextTask(MissAll(late), ready_queue) :
              /\ ready_queue' = r.queue
              /\ current_task' = r.next
              /\ IF r.next # NULL
                 THEN /\ pc' = "setrun"
                      /\ disp' = [AfterDispatch(disp) EXCEPT !.task = r.next]
                      /\ total_idle_time' = total_idle_time + (now - idle_start_time)
                      /\ start_time' = now
                      /\ UNCHANGED idle_start_time
                 ELSE /\ pc' = "idle"
                      /\ disp' = AfterDispatch(disp)
                      /\ idle_start_time' = now
                      /\ UNCHANGED <<total_idle_time, start_time>>
    /\ UNCHANGED <<tasks, all_tasks, is_running, force_reschedule,
                   preemption_mode, recovery_attempts, mon,
                   kernel_mutex, task_symbols, adjust_armed, ret, now,
                   total_run_time, cpu_utilization, last_schedule_time,
                   last_check_time, mid, threads>>

\* schedulerLoop from the lock to the unlock before the task runs, or to the
\* wait when nothing is ready: checkDeadlines, selectNextTask, exitIdleState /
\* enterIdleState; checkDeadlines records a miss for the tasks of one of the
\* sets `lates`.
DispSelectLate(lates) ==
    /\ Alive
    /\ pc = "top"
    /\ is_running
    /\ scheduler_mutex = "free"
    /\ \E late \in lates :
         /\ obj' = MissAll(late)
         /\ \E r \in selectNextTask(MissAll(late), ready_queue) :
              /\ ready_queue' = r.queue
              /\ current_task' = r.next
              /\ IF r.next # NULL
                 THEN /\ pc' = "setrun"
                      /\ disp' = [AfterDispatch(disp) EXCEPT !.task = r.next]
                      /\ total_idle_time' = total_idle_time + (now - idle_start_time)
                      /\ start_time' = now
                      /\ UNCHANGED idle_start_time
                 ELSE /\ pc' = "idle"
                      /\ disp' = AfterDispatch(disp)
                      /\ idle_start_time' = now
                      /\ UNCHANGED <<total_idle_time, start_time>>
    /\ UNCHANGED <<tasks, all_tasks, is_running, force_reschedule,
                   preemption_mode, recovery_attempts, scheduler_mutex, mon,
                   kernel_mutex, task_symbols, adjust_armed, ret, now,
                   total_run_time, cpu_utilization, last_schedule_time,
                   last_check_time, mid, threads>>

\* The same where the clock is not followed: any of the tasks that
\* checkDeadlines examines may be overdue.
DispSelect == DispSelectLate(SUBSET DeadlineChecked)

\* The same by the clock: the overdue tasks are those of checkDeadlines.
DispSelectTimed == DispSelectLate({checkDeadlines})

\* current_task_->setState(TaskState::RUNNING), outside the lock.
DispSetRunning ==
    /\ Alive
    /\ pc = "setrun"
    /\ obj' = [obj EXCEPT ![current_task] = setState(@, "RUNNING")]
    /\ pc' = "exec"
    /\ UNCHANGED <<tasks, all_tasks, ready_queue, current_task, is_running,
                   force_reschedule, preemption_mode, recovery_attempts,
                   scheduler_mutex, mon, kernel_mutex, task_symbols,
                   adjust_armed, disp, ret, now, idle_start_time, start_time,
                   total_run_time, total_idle_time, cpu_utilization,
                   last_schedule_time, last_check_time, mid, threads>>

\* execute() up to the call of the handler.
DispExecuteBegin ==
    /\ Alive
    /\ pc = "exec"
    /\ obj' = [obj EXCEPT ![current_task] = executeBegin(@)]
    /\ pc' = "handler"
    /\ disp' = [disp EXCEPT !.started = TRUE, !.yielded_to = {}]
    /\ UNCHANGED <<tasks, all_tasks, ready_queue, current_task, is_running,
                   force_reschedule, preemption_mode, recovery_attempts,
                   scheduler_mutex, mon, kernel_mutex, task_symbols, adjust_armed,
                   ret, now, idle_start_time, start_time, total_run_time,
                   total_idle_time, cpu_utilization, last_schedule_time,
                   last_check_time, mid, threads>>

\* Scheduler::yield, called by the handler that is running.
HandlerYield ==
    /\ Alive
    /\ pc = "handler"
    /\ force_reschedule' = TRUE
    /\ disp' = [disp EXCEPT
                   !.yielded = TRUE,
                   !.yielded_to = @ \cup { o \in AllTasks \ {current_task} :
                                              obj[o].state = "READY" }]
    /\ UNCHANGED <<obj, tasks, all_tasks, ready_queue, current_task, is_running,
                   preemption_mode, recovery_attempts, scheduler_mutex, pc, mon,
                   kernel_mutex, task_symbols, adjust_armed, ret, now,
                   idle_start_time, start_time, total_run_time,
                   total_idle_time, cpu_utilization, last_schedule_time,
                   last_check_time, mid, threads>>

\* The handler returns or throws, and execute() sets the state it ends in.
DispHandlerEnd(threw) ==
    /\ Alive
    /\ pc = "handler"
    /\ obj' = [obj EXCEPT ![current_task] = executeEnd(@, threw)]
    /\ pc' = "relock"
    /\ disp' = [disp EXCEPT !.threw = threw]
    /\ UNCHANGED <<tasks, all_tasks, ready_queue, current_task, is_running,
                   force_reschedule, preemption_mode, recovery_attempts,
                   scheduler_mutex, mon, kernel_mutex, task_symbols, adjust_armed,
                   ret, now, idle_start_time, start_time, total_run_time,
                   total_idle_time, cpu_utilization, last_schedule_time,
                   last_check_time, mid, threads>>

\* schedulerLoop from lock.lock() to `force_reschedule_ = false`:
\* updateStatistics, the execution time added to total_run_time_, the
\* recovery check, attemptTaskRecovery, updateCpuUtilization, the reset of
\* the reschedule flag.
DispRelock ==
    /\ Alive
    /\ pc = "relock"
    /\ scheduler_mutex = "free"
    /\ scheduler_mutex' = "dispatcher"
    /\ LET h == [obj EXCEPT ![current_task] =
                                updateStatistics(@, now - start_time)]
       IN  IF h[current_task].state = "TERMINATED" /\ h[current_task].recoverable
           THEN LET r == attemptTaskRecovery(h, ready_queue, recovery_attempts,
                                             current_task)
                IN  /\ obj' = r.obj
                    /\ ready_queue' = r.queue
                    /\ recovery_attempts' = r.attempts
                    /\ disp' = [disp EXCEPT !.recovery =
                                    IF r.ok THEN "revived" ELSE "refused"]
           ELSE /\ obj' = h
                /\ UNCHANGED <<ready_queue, recovery_attempts, disp>>
    /\ total_run_time' = total_run_time + (now - start_time)
    /\ cpu_utilization' = updateCpuUtilization(total_run_time', total_idle_time)
    /\ force_reschedule' = FALSE
    /\ pc' = "resched"
    /\ UNCHANGED <<tasks, all_tasks, current_task, is_running, preemption_mode,
                   mon, kernel_mutex, task_symbols, adjust_armed, ret, now,
                   idle_start_time, start_time, total_idle_time,
                   last_schedule_time, last_check_time, mid, threads>>

\* scheduler_cv_.wait_for returns with the lock held; exitIdleState.
DispIdleWake ==
    /\ Alive
    /\ pc = "idle"
    /\ scheduler_mutex = "free"
    /\ scheduler_mutex' = "dispatcher"
    /\ total_idle_time' = total_idle_time + (now - idle_start_time)
    /\ pc' = "resched"
    /\ UNCHANGED <<obj, tasks, all_tasks, ready_queue, current_task, is_running,
                   force_reschedule, preemption_mode, recovery_attempts, mon,
                   kernel_mutex, task_symbols, adjust_armed, disp, ret, now,
                   idle_start_time, start_time, total_run_time, cpu_utilization,
                   last_schedule_time, last_check_time, mid, threads>>

\* A variant of the guard of the time-slice test without the test of the
\* policy; C26_TimeSliceOnlyPreemptive tells it from the code.
TimeSliceApplies_AnyPolicy ==
    /\ current_task # NULL
    /\ preemption_mode \in {"TIME_SLICE", "HYBRID"}

\* Whether the time-slice test of schedulerLoop is made at all; when it is,
\* its result, now - last_schedule_time_ >= time_slice_, is an input: the
\* slice is a number of milliseconds and the thread may have been delayed
\* for any length of time.
TimeSliceApplies ==
    /\ current_task # NULL
    /\ obj[current_task].policy = "PREEMPTIVE"
    /\ preemption_mode \in {"TIME_SLICE", "HYBRID"}

\* schedulerLoop from the time-slice test to the end of the iteration.
\* `due` is the test now - last_priority_adjustment > 1 s, which is false in
\* the iteration that initialises the static.  adjustPriorities locks
\* scheduler_mutex_, which this thread holds: behaviour undefined; the thread
\* blocks for ever, or lock() throws and the exception leaves the thread
\* function (std::terminate), or the mutex counts the owner's second lock()
\* and adjustPriorities goes on, the mutex held.
DispReschedule ==
    /\ Alive
    /\ pc = "resched"
    /\ \E time_slice_expired \in IF TimeSliceApplies THEN BOOLEAN ELSE {FALSE},
          due \in IF adjust_armed THEN BOOLEAN ELSE {FALSE} :
         /\ IF time_slice_expired \/ force_reschedule
            THEN /\ last_schedule_time' = now
                 /\ force_reschedule' = FALSE
                 /\ ready_queue' =
                        IF current_task # NULL /\ obj[current_task].state = "READY"
                        THEN Push(ready_queue, current_task)
                        ELSE ready_queue
                 /\ current_task' = NULL
            ELSE UNCHANGED <<last_schedule_time, force_reschedule, ready_queue,
                             current_task>>
         /\ IF due
            THEN /\ pc' \in {"deadlocked", "aborted", "adjust"}
                 /\ mid' = IF pc' = "adjust"
                           THEN mid \cup {Mid("adjustPriorities", "", NULL)}
                           ELSE mid
                 /\ UNCHANGED scheduler_mutex
            ELSE /\ pc' = "top"
                 /\ scheduler_mutex' = "free"
                 /\ UNCHANGED mid
    /\ adjust_armed' = TRUE
    /\ disp' = AfterDispatch(disp)
    /\ UNCHANGED <<obj, tasks, all_tasks, is_running, preemption_mode,
                   recovery_attempts, mon, kernel_mutex, task_symbols, ret,
                   now, idle_start_time, start_time, total_run_time,
                   total_idle_time, cpu_utilization, last_check_time, threads>>

\* adjustPriorities called by schedulerLoop, where the second lock() was
\* counted: updatePriority on every task, the ready queue rebuilt from its
\* READY entries, the two unlocks, and the iteration ends.
DispAdjust ==
    /\ Alive
    /\ pc = "adjust"
    /\ obj' = [ o \in Objs |-> IF o \in AllTasks THEN updatePriority(obj[o])
                               ELSE obj[o] ]
    /\ ready_queue' = [ o \in { x \in BagToSet(ready_queue) : obj[x].state = "READY" }
                          |-> ready_queue[o] ]
    /\ mid' = mid \ {Mid("adjustPriorities", "", NULL)}
    /\ scheduler_mutex' = "free"
    /\ pc' = "top"
    /\ UNCHANGED <<tasks, all_tasks, current_task, is_running, force_reschedule,
                   preemption_mode, recovery_attempts, mon, kernel_mutex,
                   task_symbols, adjust_armed, disp, ret, now, idle_start_time,
                   start_time, total_run_time, total_idle_time,
                   cpu_utilization, last_schedule_time, last_check_time,
                   threads>>

\* ------------------------------------------------------------- the clock
\* A microsecond passes on the steady clock, up to maxNow in all.
Tick(maxNow) ==
    /\ Alive
    /\ now < maxNow
    /\ now' = now + 1
    /\ UNCHANGED <<obj, tasks, all_tasks, ready_queue, current_task, is_running,
                   force_reschedule, preemption_mode, recovery_attempts,
                   scheduler_mutex, pc, mon, kernel_mutex, task_symbols,
                   adjust_armed, disp, ret, idle_start_time, start_time,
                   total_run_time, total_idle_time, cpu_utilization,
                   last_schedule_time, last_check_time, mid, threads>>

\* ---------------------------------------------------- the monitor thread
\* deadlineMonitorLoop, `while (is_running_)`.
MonCheck ==
    /\ Alive
    /\ mon = "check"
    /\ mon' = IF is_running THEN "sleep" ELSE "exited"
    /\ threads' = IF is_running THEN threads
                   ELSE [threads EXCEPT !.monitor = @ - 1]
    /\ UNCHANGED <<obj, tasks, all_tasks, ready_queue, current_task, is_running,
                   force_reschedule, preemption_mode, recovery_attempts,
                   scheduler_mutex, pc, kernel_mutex, task_symbols,
                   adjust_armed, disp, ret, now, idle_start_time, start_time,
                   total_run_time, total_idle_time, cpu_utilization,
                   last_schedule_time, last_check_time, mid>>

\* A variant of the monitor's tick whose hint does not test the preemption
\* mode; C27_HintOnlyWhenWarranted tells it from the code.
RECURSIVE TickFrom_AnyMode(_, _, _, _)
TickFrom_AnyMode(i, h, f, elapsed) ==
    IF i > Len(all_tasks) THEN [obj |-> h, flag |-> f]
    ELSE
    LET o  == all_tasks[i]
        h1 == IF o # current_task \/ h[o].state # "RUNNING"
              THEN [h EXCEPT ![o] = updateDeadlineCounter(@, elapsed)]
              ELSE h
        hint == /\ isDeadlineApproaching(h1[o])
                /\ h1[o].state = "READY"
                /\ current_task # NULL
                /\ h1[o].dynamic_priority > h1[current_task].dynamic_priority
    IN  TickFrom_AnyMode(i + 1, h1, f \/ hint, elapsed)

\* The loop of one tick from entry i of all_tasks_ on, the task objects being
\* h and the reschedule flag f: each task is tested right after its own update.
RECURSIVE TickFrom(_, _, _, _)
TickFrom(i, h, f, elapsed) ==
    IF i > Len(all_tasks) THEN [obj |-> h, flag |-> f]
    ELSE
    LET o  == all_tasks[i]
        h1 == IF o # current_task \/ h[o].state # "RUNNING"
              THEN [h EXCEPT ![o] = updateDeadlineCounter(@, elapsed)]
              ELSE h
        hint == /\ isDeadlineApproaching(h1[o])
                /\ h1[o].state = "READY"
                /\ current_task # NULL
                /\ h1[o].dynamic_priority > h1[current_task].dynamic_priority
                /\ preemption_mode \in {"PRIORITY", "HYBRID"}
    IN  TickFrom(i + 1, h1, f \/ hint, elapsed)

\* deadlineMonitorLoop: one tick, `elapsed` milliseconds after the one before.
MonTick(elapsed) ==
    /\ Alive
    /\ mon = "sleep"
    /\ scheduler_mutex = "free"
    /\ LET r == TickFrom(1, obj, force_reschedule, elapsed)
       IN  /\ obj' = r.obj
           /\ force_reschedule' = r.flag
    /\ mon' = "check"
    /\ last_check_time' = now
    /\ UNCHANGED <<tasks, all_tasks, ready_queue, current_task, is_running,
                   preemption_mode, recovery_attempts, scheduler_mutex, pc,
                   kernel_mutex, task_symbols, adjust_armed, disp, ret, now,
                   idle_start_time, start_time, total_run_time,
                   total_idle_time, cpu_utilization, last_schedule_time, mid,
                   threads>>

\* ------------------------------------------- calls on the task, from outside
\* TaskBase::recordDeadlineMiss and TaskBase::updatePriority through a TaskPtr.
TaskRecordDeadlineMiss(o) ==
    /\ Alive
    /\ obj' = [obj EXCEPT ![o] = recordDeadlineMiss(@)]
    /\ UNCHANGED <<tasks, all_tasks, ready_queue, current_task, is_running,
                   force_reschedule, preemption_mode, recovery_attempts,
                   scheduler_mutex, pc, mon, kernel_mutex, task_symbols,
                   adjust_armed, disp, ret, now, idle_start_time, start_time,
                   total_run_time, total_idle_time, cpu_utilization,
                   last_schedule_time, last_check_time, mid, threads>>

TaskUpdatePriority(o) ==
    /\ Alive
    /\ obj' = [obj EXCEPT ![o] = updatePriority(@)]
    /\ UNCHANGED <<tasks, all_tasks, ready_queue, current_task, is_running,
                   force_reschedule, preemption_mode, recovery_attempts,
                   scheduler_mutex, pc, mon, kernel_mutex, task_symbols,
                   adjust_armed, disp, ret, now, idle_start_time, start_time,
                   total_run_time, total_idle_time, cpu_utilization,
                   last_schedule_time, last_check_time, mid, threads>>

\* Scheduler::adjustPriorities, called by a thread that does not hold the
\* scheduler mutex.
AdjustPriorities ==
    /\ Alive
    /\ scheduler_mutex = "free"
    /\ obj' = [ o \in Objs |-> IF o \in AllTasks THEN updatePriority(obj[o])
                               ELSE obj[o] ]
    /\ ready_queue' = [ o \in { x \in BagToSet(ready_queue) : obj[x].state = "READY" }
                          |-> ready_queue[o] ]
    /\ UNCHANGED <<tasks, all_tasks, current_task, is_running, force_reschedule,
                   preemption_mode, recovery_attempts, scheduler_mutex, pc, mon,
                   kernel_mutex, task_symbols, adjust_armed, disp, ret, now,
                   idle_start_time, start_time, total_run_time,
                   total_idle_time, cpu_utilization, last_schedule_time,
                   last_check_time, mid, threads>>

\* ----------------------------------------------------- the specifications
\* The Kernel after construction.
Init ==
    /\ obj = <<>>
    /\ tasks = [n \in Registry |-> NULL]
    /\ all_tasks = <<>>
    /\ ready_queue = EmptyBag
    /\ current_task = NULL
    /\ is_running = FALSE
    /\ force_reschedule = FALSE
    /\ preemption_mode = "HYBRID"
    /\ recovery_attempts = 0
    /\ scheduler_mutex = "free"
    /\ pc = "none"
    /\ mon = "none"
    /\ kernel_mutex = "free"
    /\ task_symbols = [x \in {} |-> 0]
    /\ adjust_armed = FALSE
    /\ disp = NoDispatch
    /\ ret = NoReturn
    /\ threads = NoThreads
    /\ mid = {}
    /\ last_check_time = Epoch
    /\ last_schedule_time = Epoch
    /\ cpu_utilization = F32Zero
    /\ total_idle_time = 0
    /\ total_run_time = 0
    /\ start_time = 0
    /\ idle_start_time = 0
    /\ now = 0

\* No task of that name has been constructed.
Unused(name) == \A o \in Objs : obj[o].name # name

\* The steps of the dispatcher thread, with at most maxExec dispatches and
\* maxMisses deadline misses in all; the handler's outcome (threw)
\* is drawn from outcomes.
Dispatcher(maxExec, maxMisses, outcomes) ==
    \/ DispSelect /\ Misses(obj') <= maxMisses
    \/ DispSetRunning
    \/ Executions(obj) < maxExec /\ DispExecuteBegin
    \/ HandlerYield
    \/ \E threw \in outcomes : DispHandlerEnd(threw)
    \/ DispRelock
    \/ DispIdleWake
    \/ DispReschedule
    \/ DispAdjust

\* The steps of the monitor thread.
Monitor(maxMisses) ==
    \/ MonCheck
    \/ \E elapsed \in 0..MaxElapsed : MonTick(elapsed) /\ Misses(obj') <= maxMisses

\* Spec: the kernel is started once and not stopped; each name is given to
\* one task, created with the profile of the name; every task handle ever
\* handed out may be suspended and resumed at any moment; the preemption mode
\* is the default, HYBRID.
Next ==
    \/ \E n \in Names : Unused(n) /\ KernelCreateTask(n, ProfileOf[n])
    \/ \E n \in Names : KernelRemoveTask(n)
    \/ KernelStart
    \/ \E o \in Objs : TaskSuspend(o)
    \/ \E o \in Objs : TaskResume(o)
    \/ Dispatcher(MaxExec, MaxMisses, BOOLEAN)
    \/ Monitor(MaxMisses)

Spec == Init /\ [][Next]_vars

\* SpecPrio: one task, created with any priority a std::uint8_t holds, and
\* the calls that change its deadline_misses and dynamic_priority; the
\* scheduler is not started.
InitPrio ==
    \E priority \in 0..UINT8_MAX :
        /\ obj = << TaskBase("A", priority, "PREEMPTIVE", 0, 0, FALSE) >>
        /\ tasks = [n \in Names |-> IF n = "A" THEN 1 ELSE NULL]
        /\ all_tasks = <<1>>
        /\ ready_queue = SetToBag({1})
        /\ current_task = NULL
        /\ is_running = FALSE
        /\ force_reschedule = FALSE
        /\ preemption_mode = "HYBRID"
        /\ recovery_attempts = 0
        /\ scheduler_mutex = "free"
        /\ pc = "none"
        /\ mon = "none"
        /\ kernel_mutex = "free"
        /\ task_symbols = [x \in {1} |-> SymbolFor(1)]
        /\ adjust_armed = FALSE
        /\ disp = NoDispatch
        /\ ret = NoReturn
        /\ threads = NoThreads
        /\ mid = {}
        /\ last_check_time = Epoch
        /\ last_schedule_time = Epoch
        /\ cpu_utilization = F32Zero
        /\ total_idle_time = 0
        /\ total_run_time = 0
        /\ start_time = 0
        /\ idle_start_time = 0
        /\ now = 0

NextPrio ==
    \/ obj[1].deadline_misses < PrioMaxMisses /\ TaskRecordDeadlineMiss(1)
    \/ TaskUpdatePriority(1)
    \/ AdjustPriorities

SpecPrio == InitPrio /\ [][NextPrio]_vars


\* ------------------------------------------------ scenario S4: recovery cap
\* One recoverable task whose handler always throws (the scenario's F; it is
\* task "B" of ProfileOf), created before or after the kernel is started;
\* nothing else calls the kernel.
S4Exec == 4
S4Misses == 1

NextS4 ==
    \/ Unused("B") /\ KernelCreateTask("B", ProfileOf["B"])
    \/ KernelStart
    \/ Dispatcher(S4Exec, S4Misses, {TRUE})
    \/ Monitor(S4Misses)

SpecS4 == Init /\ [][NextS4]_vars

\* ------------------------------------------- recovery across task lifetimes
\* A recoverable task is created, removed and created again under the same
\* name while the kernel runs, RecObjs times at most; every removal that
\* lands between the return of execute() and the dispatcher's re-locking
\* leads to attemptTaskRecovery.  The task has no period, hence no deadline.
RecoverableProfile == [ProfileOf["B"] EXCEPT !.period = 0]

RecObjs == 4
RecExec == 4

NextRecovery ==
    \/ Len(obj) < RecObjs /\ KernelCreateTask("B", RecoverableProfile)
    \/ KernelRemoveTask("B")
    \/ KernelStart
    \/ Dispatcher(RecExec, 0, BOOLEAN)
    \/ Monitor(0)

SpecRecovery == Init /\ [][NextRecovery]_vars

\* -------------------------------------------- scenario S1: priority order
\* Tasks A (priority 10) and B (priority 80), both PREEMPTIVE, are created
\* before the kernel is started, in either order; HYBRID mode, the default.
\* Neither is recoverable, the default; B keeps its period of 1 ms.
S1Profile == [ n \in Names |-> [ProfileOf[n] EXCEPT !.recoverable = FALSE] ]

NextS1 ==
    \/ \E n \in Names : Unused(n) /\ ~is_running /\ KernelCreateTask(n, S1Profile[n])
    \/ (\A n \in Names : ~Unused(n)) /\ KernelStart
    \/ Dispatcher(MaxExec, MaxMisses, BOOLEAN)
    \/ Monitor(MaxMisses)

SpecS1 == Init /\ [][NextS1]_vars

\* ------------------------------------------- scenario S2: cooperative yield
\* Exactly two tasks, C (priority 40, COOPERATIVE) and D (priority 41,
\* PREEMPTIVE), created before or after the kernel is started; C is created
\* without period or with a period of 1 ms, D without; any preemption mode;
\* at most S2Exec dispatches and S2Misses deadline misses.
S2Exec == 4
S2Misses == 1

S2Profile ==
    [ n \in ScenarioNames |->
        IF n = "C"
        THEN [priority |-> 40, policy |-> "COOPERATIVE", period |-> 0,
              deadline |-> 0, recoverable |-> FALSE]
        ELSE [priority |-> 41, policy |-> "PREEMPTIVE", period |-> 0,
              deadline |-> 0, recoverable |-> FALSE] ]

NextS2 ==
    \/ \E period \in {0, 1} :
         /\ Unused("C")
         /\ KernelCreateTask("C", [S2Profile["C"] EXCEPT !.period = period])
    \/ Unused("D") /\ KernelCreateTask("D", S2Profile["D"])
    \/ KernelStart
    \/ \E m \in PreemptionModes : SetPreemptionMode(m)
    \/ Dispatcher(S2Exec, S2Misses, BOOLEAN)
    \/ Monitor(S2Misses)

SpecS2 == Init /\ [][NextS2]_vars

\* ------------------------------------------------------- stop of a kernel
\* One task without deadline, whose handler returns or throws but does not
\* run for ever; the kernel is started and stopped.  The kernel is started
\* again only while nothing has been dispatched, and the dispatch that is
\* under way when stop() is called is not counted in StopExec; at most
\* StopStarts pairs of threads are spawned.  Each thread
\* that can take a step eventually takes one.
StopExec == 2

StopStarts == 2

DispatcherThread ==
    \/ DispExit
    \/ Dispatcher(IF is_running THEN StopExec ELSE StopExec + 1, 0, BOOLEAN)

NextStop ==
    \/ Unused("A") /\ KernelCreateTask("A", ProfileOf["A"])
    \/ Executions(obj) = 0 /\ threads.spawned < 2 * StopStarts /\ KernelStart
    \/ KernelStop
    \/ KernelStopJoined
    \/ DispatcherThread
    \/ Monitor(0)

SpecStop ==
    /\ Init
    /\ [][NextStop]_vars
    /\ WF_vars(DispatcherThread)
    /\ WF_vars(Monitor(0))
    /\ WF_vars(KernelStopJoined)

\* ------------------------------------------- the Kernel's calls by name
\* SpecKernel: a client that makes every call the Kernel takes a name for,
\* with names that are registered and names that are not, in any order,
\* before and after start(), while the dispatcher runs handlers that return.
\* At most KernelObjs tasks are constructed and KernelExec handlers started.
KernelObjs == 2
KernelExec == 1

NextKernel ==
    \/ \E n \in Names : Len(obj) < KernelObjs /\ KernelCreateTask(n, ProfileOf[n])
    \/ \E n \in Names : KernelCreateDuplicate(n)
    \/ \E n \in Names : KernelRemoveTask(n)
    \/ \E n \in Names : KernelRemoveUnknown(n)
    \/ \E n \in Names : KernelGetTask(n)
    \/ \E n \in Names : KernelSuspendTask(n)
    \/ \E n \in Names : KernelResumeTask(n)
    \/ KernelStart
    \/ Dispatcher(KernelExec, 0, {FALSE})

SpecKernel == Init /\ [][NextKernel]_vars

\* ------------------------------------------------------ time accounting
\* SpecTime: tasks A and B are created before or after start(); handlers
\* return; the steady clock advances by a microsecond at any moment, before,
\* during and between dispatches and idle waits, up to TimeMaxNow; at most
\* TimeExec handlers are started.
TimeMaxNow == 3
TimeExec == 2

NextTime ==
    \/ \E n \in Names : Unused(n) /\ KernelCreateTask(n, S1Profile[n])
    \/ KernelStart
    \/ Dispatcher(TimeExec, 0, {FALSE})
    \/ Tick(TimeMaxNow)

SpecTime == Init /\ [][NextTime]_vars

\* ------------------------------------------------- deadlines by the clock
\* SpecDeadline: tasks B (period and deadline 1 ms) and then A (no period)
\* are created, the scheduler is started at any moment and never stopped;
\* every handler returns.
\* The clock advances by whole milliseconds, up to DlMaxMs; checkDeadlines and
\* the monitor's tick read it.  At most DlExec handlers are started and DlMisses
\* deadline misses recorded.
DlMaxMs == 3
DlExec == 2
DlMisses == 2

\* One millisecond passes.
TickMs(maxMs) ==
    /\ Alive
    /\ now + MS <= maxMs * MS
    /\ now' = now + MS
    /\ UNCHANGED <<obj, tasks, all_tasks, ready_queue, current_task, is_running,
                   force_reschedule, preemption_mode, recovery_attempts,
                   scheduler_mutex, pc, mon, kernel_mutex, task_symbols,
                   adjust_armed, disp, ret, idle_start_time, start_time,
                   total_run_time, total_idle_time, cpu_utilization,
                   last_schedule_time, last_check_time, mid, threads>>

\* deadlineMonitorLoop: one tick by the clock.  The static last_check_time is
\* initialised by the first pass, whose elapsed time is therefore 0.
MonTickTimed ==
    MonTick(IF last_check_time = Epoch THEN 0 ELSE (now - last_check_time) \div MS)

\* The steps of the dispatcher thread where checkDeadlines follows the clock.
DispatcherTimed(maxExec, maxMisses) ==
    \/ DispSelectTimed /\ Misses(obj') <= maxMisses
    \/ DispSetRunning
    \/ Executions(obj) < maxExec /\ DispExecuteBegin
    \/ DispHandlerEnd(FALSE)
    \/ DispRelock
    \/ DispIdleWake
    \/ DispReschedule
    \/ DispAdjust

NextDeadline ==
    \/ \E n \in Names : /\ Unused(n)
                        /\ (n = "A" => ~Unused("B"))
                        /\ KernelCreateTask(n, S1Profile[n])
    \/ KernelStart
    \/ DispatcherTimed(DlExec, DlMisses)
    \/ MonCheck
    \/ MonTickTimed /\ Misses(obj') <= DlMisses
    \/ TickMs(DlMaxMs)

SpecDeadline == Init /\ [][NextDeadline]_vars

\* ------------------------------------------------ calls during a handler
\* SpecHandler: task B is created and the scheduler started; every other call
\* from outside is made while a handler is running: the creation of A,
\* removals, look-ups and visualizations, and the monitor's ticks.  Every
\* handler returns.  At most HandlerExec handlers are started and
\* HandlerMisses deadline misses recorded.
HandlerExec == 2
HandlerMisses == 1

NextHandler ==
    \/ Unused("B") /\ KernelCreateTask("B", S1Profile["B"])
    \/ ~Unused("B") /\ KernelStart
    \/ pc = "handler" /\ Unused("A") /\ KernelCreateTask("A", S1Profile["A"])
    \/ pc = "handler" /\ \E n \in Names : KernelRemoveTask(n)
    \/ pc = "handler" /\ \E n \in Names : SchedulerFindTask(n)
    \/ pc = "handler" /\ GetTaskStateVisualization
    \/ Dispatcher(HandlerExec, HandlerMisses, {FALSE})
    \/ MonCheck
    \/ pc = "handler" /\ \E elapsed \in 0..MaxElapsed :
                           MonTick(elapsed) /\ Misses(obj') <= HandlerMisses

SpecHandler == Init /\ [][NextHandler]_vars

\* ------------------------------------------------ the mutex, step by step
\* Kernel::createTask up to the first write of Scheduler::addTask: both
\* mutexes taken, the task constructed and registered, all_tasks_.push_back.
KernelCreateBegin(name, pr) ==
    /\ Alive
    /\ kernel_mutex = "free"
    /\ scheduler_mutex = "free"
    /\ tasks[name] = NULL
    /\ LET o == Len(obj) + 1
       IN  /\ obj' = Append(obj, TaskBase(name, pr.priority, pr.policy, pr.period,
                                          pr.deadline, pr.recoverable))
           /\ tasks' = [tasks EXCEPT ![name] = o]
           /\ all_tasks' = Append(all_tasks, o)
           /\ mid' = mid \cup {Mid("addTask", name, o)}
    /\ kernel_mutex' = "createTask"
    /\ scheduler_mutex' = "addTask"
    /\ UNCHANGED <<ready_queue, current_task, is_running, force_reschedule,
                   preemption_mode, recovery_attempts, pc, mon, task_symbols,
                   adjust_armed, disp, ret, now, idle_start_time, start_time,
                   total_run_time, total_idle_time, cpu_utilization,
                   last_schedule_time, last_check_time, threads>>

\* The rest of Scheduler::addTask and of Kernel::createTask: the push on the
\* ready queue, the symbol, the two unlocks.
KernelCreateEnd ==
    /\ Alive
    /\ \E m \in mid :
         /\ m.op = "addTask"
         /\ ready_queue' = IF obj[m.task].state = "READY"
                           THEN Push(ready_queue, m.task) ELSE ready_queue
         /\ task_symbols' = [ x \in DOMAIN task_symbols \cup {m.task} |->
                                IF x = m.task THEN SymbolFor(Len(all_tasks))
                                ELSE task_symbols[x] ]
         /\ mid' = mid \ {m}
         /\ ret' = Returned("createTask", m.name, m.task)
    /\ scheduler_mutex' = "free"
    /\ kernel_mutex' = "free"
    /\ UNCHANGED <<obj, tasks, all_tasks, current_task, is_running,
                   force_reschedule, preemption_mode, recovery_attempts, pc, mon,
                   adjust_armed, disp, now, idle_start_time, start_time,
                   total_run_time, total_idle_time, cpu_utilization,
                   last_schedule_time, last_check_time, threads>>

\* Kernel::removeTask with a registered name up to all_tasks_.erase(it) of
\* Scheduler::removeTask: both mutexes taken, the task terminated and erased
\* from the list.
KernelRemoveBegin(name) ==
    /\ Alive
    /\ kernel_mutex = "free"
    /\ scheduler_mutex = "free"
    /\ tasks[name] # NULL
    /\ LET i == FindIndex(name)
       IN  IF i = 0
           THEN /\ mid' = mid \cup {Mid("removeTask", name, NULL)}
                /\ UNCHANGED <<obj, all_tasks>>
           ELSE /\ obj' = [obj EXCEPT ![all_tasks[i]] = terminate(@)]
                /\ all_tasks' = Erase(all_tasks, i)
                /\ mid' = mid \cup {Mid("removeTask", name, all_tasks[i])}
    /\ kernel_mutex' = "removeTask"
    /\ scheduler_mutex' = "removeTask"
    /\ UNCHANGED <<tasks, ready_queue, current_task, is_running,
                   force_reschedule, preemption_mode, recovery_attempts, pc, mon,
                   task_symbols, adjust_armed, disp, ret, now, idle_start_time,
                   start_time, total_run_time, total_idle_time,
                   cpu_utilization, last_schedule_time, last_check_time,
                   threads>>

\* The rest of Scheduler::removeTask and of Kernel::removeTask: the symbol
\* erased, the unlock, the registry entry erased, the unlock.
KernelRemoveEnd ==
    /\ Alive
    /\ \E m \in mid :
         /\ m.op = "removeTask"
         /\ task_symbols' = [ x \in DOMAIN task_symbols \ {m.task} |->
                                task_symbols[x] ]
         /\ tasks' = [tasks EXCEPT ![m.name] = NULL]
         /\ mid' = mid \ {m}
         /\ ret' = Returned("removeTask", m.name, NULL)
    /\ scheduler_mutex' = "free"
    /\ kernel_mutex' = "free"
    /\ UNCHANGED <<obj, all_tasks, ready_queue, current_task, is_running,
                   force_reschedule, preemption_mode, recovery_attempts, pc, mon,
                   adjust_armed, disp, now, idle_start_time, start_time,
                   total_run_time, total_idle_time, cpu_utilization,
                   last_schedule_time, last_check_time, threads>>

\* Scheduler::adjustPriorities called from outside, without the lock_guard:
\* it begins whoever holds the mutex.  C34_AdjustExcludesMutation tells it
\* from the code.
AdjustBegin_NoLock ==
    /\ Alive
    /\ Mid("adjustPriorities", "", NULL) \notin mid
    /\ obj' = [ o \in Objs |-> IF o \in AllTasks THEN updatePriority(obj[o])
                               ELSE obj[o] ]
    /\ mid' = mid \cup {Mid("adjustPriorities", "", NULL)}
    /\ UNCHANGED <<tasks, all_tasks, ready_queue, current_task, is_running,
                   force_reschedule, preemption_mode, recovery_attempts,
                   scheduler_mutex, pc, mon, kernel_mutex, task_symbols,
                   adjust_armed, disp, ret, now, idle_start_time, start_time,
                   total_run_time, total_idle_time, cpu_utilization,
                   last_schedule_time, last_check_time, threads>>

\* Scheduler::adjustPriorities called from outside, up to the end of its
\* first loop: the mutex taken, updatePriority on every task.
AdjustBegin ==
    /\ Alive
    /\ scheduler_mutex = "free"
    /\ scheduler_mutex' = "adjustPriorities"
    /\ obj' = [ o \in Objs |-> IF o \in AllTasks THEN updatePriority(obj[o])
                               ELSE obj[o] ]
    /\ mid' = mid \cup {Mid("adjustPriorities", "", NULL)}
    /\ UNCHANGED <<tasks, all_tasks, ready_queue, current_task, is_running,
                   force_reschedule, preemption_mode, recovery_attempts, pc, mon,
                   kernel_mutex, task_symbols, adjust_armed, disp, ret, now,
                   idle_start_time, start_time, total_run_time,
                   total_idle_time, cpu_utilization, last_schedule_time,
                   last_check_time, threads>>

\* The rest of that call: the ready queue rebuilt from its READY entries, the
\* unlock.
AdjustEnd ==
    /\ Alive
    /\ pc # "adjust"
    /\ Mid("adjustPriorities", "", NULL) \in mid
    /\ ready_queue' = [ o \in { x \in BagToSet(ready_queue) : obj[x].state = "READY" }
                          |-> ready_queue[o] ]
    /\ mid' = mid \ {Mid("adjustPriorities", "", NULL)}
    /\ scheduler_mutex' = "free"
    /\ UNCHANGED <<obj, tasks, all_tasks, current_task, is_running,
                   force_reschedule, preemption_mode, recovery_attempts, pc, mon,
                   kernel_mutex, task_symbols, adjust_armed, disp, ret, now,
                   idle_start_time, start_time, total_run_time,
                   total_idle_time, cpu_utilization, last_schedule_time,
                   last_check_time, threads>>

\* SpecMutex: tasks A and B are created and removed by name, the scheduler is
\* started, adjustPriorities is called from outside and by the dispatcher;
\* createTask, removeTask and adjustPriorities take two steps each, the
\* mutexes held in between.  Every handler returns; at most MutexExec
\* handlers are started.
MutexExec == 2

NextMutex ==
    \/ \E n \in Names : Unused(n) /\ KernelCreateBegin(n, ProfileOf[n])
    \/ KernelCreateEnd
    \/ \E n \in Names : KernelRemoveBegin(n)
    \/ KernelRemoveEnd
    \/ AdjustBegin
    \/ AdjustEnd
    \/ KernelStart
    \/ Dispatcher(MutexExec, 0, {FALSE})

SpecMutex == Init /\ [][NextMutex]_vars

\* ------------------------------------------------ visualization symbols
\* SpecSymbols: tasks are created and removed under the names A and B, SymObjs
\* tasks at most in all; the visualization and findTask are called at any
\* moment; the scheduler is started and dispatches at most SymExec handlers,
\* which return.
SymObjs == 3
SymExec == 1

NextSymbols ==
    \/ \E n \in Names : Len(obj) < SymObjs /\ KernelCreateTask(n, S1Profile[n])
    \/ \E n \in Names : KernelRemoveTask(n)
    \/ \E n \in Names : SchedulerFindTask(n)
    \/ GetTaskStateVisualization
    \/ KernelStart
    \/ Dispatcher(SymExec, 0, {FALSE})

SpecSymbols == Init /\ [][NextSymbols]_vars

\* ------------------------------------------------------ start and stop
\* One task whose handler returns or throws; start() and stop() are called
\* through the Kernel in any order, on a running and on a stopped scheduler.
\* At most RestartStarts pairs of threads are spawned, and the dispatch that
\* is under way when stop() is called is not counted in RestartExec.
RestartExec == 2

RestartStarts == 2

DispatcherRestart ==
    \/ DispExit
    \/ Dispatcher(IF is_running THEN RestartExec ELSE RestartExec + 1, 0,
                  BOOLEAN)

NextRestart ==
    \/ Unused("A") /\ KernelCreateTask("A", ProfileOf["A"])
    \/ threads.spawned < 2 * RestartStarts /\ KernelStart
    \/ KernelStartRunning
    \/ KernelStop
    \/ KernelStopStopped
    \/ KernelStopJoined
    \/ DispatcherRestart
    \/ Monitor(0)

SpecRestart == Init /\ [][NextRestart]_vars

\* ------------------------------------------------- dispatcher progress
\* SpecLive: tasks A and B are created, the scheduler is started and never
\* stopped, every handler returns; the dispatcher thread and the monitor
\* thread are scheduled fairly.  At most LiveExec handlers are started.
LiveExec == 2

LiveDispatcher == Dispatcher(LiveExec, 0, {FALSE})

NextLive ==
    \/ \E n \in Names : Unused(n) /\ KernelCreateTask(n, S1Profile[n])
    \/ KernelStart
    \/ LiveDispatcher
    \/ Monitor(0)

SpecLive ==
    Init /\ [][NextLive]_vars /\ WF_vars(LiveDispatcher) /\ WF_vars(Monitor(0))

\* ------------------------------------- a cooperative task and a deadline
\* SpecCoop: task C (priority 40, COOPERATIVE, no deadline) and task D
\* (priority 41, PREEMPTIVE, period and deadline 1 ms), created before or
\* after start(); the default mode, HYBRID; handlers return; at most CoopExec
\* handlers are started and CoopMisses deadline misses recorded.
CoopExec == 2
CoopMisses == 1

CoopProfile ==
    [S2Profile EXCEPT !["D"] = [S2Profile["D"] EXCEPT !.period = 1]]

NextCoop ==
    \/ \E n \in ScenarioNames : Unused(n) /\ KernelCreateTask(n, CoopProfile[n])
    \/ KernelStart
    \/ Dispatcher(CoopExec, CoopMisses, {FALSE})
    \/ Monitor(CoopMisses)

SpecCoop == Init /\ [][NextCoop]_vars

\* ================================================================ claims
\* The tasks removed through the Kernel: constructed, no longer in all_tasks_.
Removed == Objs \ AllTasks

\* The dispatcher is between selecting task o and the end of its execute().
Dispatching(o) == current_task = o /\ pc \in {"setrun", "exec", "handler"}

\* C1: at the step in which selectNextTask returns task T under PRIORITY or
\* HYBRID mode, no other task of all_tasks_ is READY with a dynamic priority
\* strictly greater than T's.
C1_SelectsHighestReady ==
    [][ (pc = "top" /\ pc' = "setrun" /\ preemption_mode \in {"PRIORITY", "HYBRID"})
        => \A o \in AllTasks :
              (o # current_task' /\ obj'[o].state = "READY")
              => obj'[o].dynamic_priority <= obj'[current_task'].dynamic_priority
      ]_vars

\* C2: in every reachable state at most one task object is RUNNING.
C2_AtMostOneRunning ==
    Cardinality({ o \in Objs : obj[o].state = "RUNNING" }) <= 1

\* C2 witness: a handler is running, its task is RUNNING, and another task
\* has been dispatched before it.
C2_Witness ==
    /\ pc = "handler"
    /\ obj[current_task].state = "RUNNING"
    /\ \E o \in Objs : o # current_task /\ obj[o].execution_count > 0

\* C3: a task that is SUSPENDED while its handler executes (suspend was
\* called during the handler) is SUSPENDED when the handler has returned.
C3_SuspendSurvivesHandler ==
    [][ (pc = "handler" /\ pc' = "relock" /\ ~disp'.threw
         /\ obj[current_task].state = "SUSPENDED")
        => obj'[current_task].state = "SUSPENDED"
      ]_vars

\* C4: once remove_task has returned, the removed task is TERMINATED and
\* stays so, and its handler is not started again (execution_count is fixed).
C4_RemovedStaysTerminated ==
    [][ \A o \in Removed :
          /\ obj'[o].state = "TERMINATED"
          /\ obj'[o].execution_count = obj[o].execution_count
      ]_vars

\* C6: when the handler of a recoverable task throws, execute() leaves the
\* task READY, and the dispatcher's step that follows neither calls
\* attemptTaskRecovery nor changes recovery_attempts.
C6_RecoverableFailureNoRecovery ==
    [][ /\ (pc = "handler" /\ pc' = "relock" /\ disp'.threw
            /\ obj[current_task].recoverable)
           => obj'[current_task].state = "READY"
        /\ (pc = "relock" /\ pc' = "resched" /\ disp.threw
            /\ obj[current_task].recoverable)
           => /\ disp'.recovery = "none"
              /\ recovery_attempts' = recovery_attempts
      ]_vars

\* C7: when the handler of a non-recoverable task throws, the task is
\* TERMINATED and the dispatcher attempts no recovery; and a non-recoverable
\* task that is TERMINATED outside its own dispatch stays TERMINATED, keeps
\* its execution_count and is not selected.
C7_NonRecoverableFailureIsFinal ==
    [][ /\ (pc = "handler" /\ pc' = "relock" /\ disp'.threw
            /\ ~obj[current_task].recoverable)
           => obj'[current_task].state = "TERMINATED"
        /\ (pc = "relock" /\ pc' = "resched" /\ disp.threw
            /\ ~obj[current_task].recoverable)
           => /\ disp'.recovery = "none"
              /\ recovery_attempts' = recovery_attempts
        /\ \A o \in Objs :
             (~obj[o].recoverable /\ obj[o].state = "TERMINATED" /\ ~Dispatching(o))
             => /\ obj'[o].state = "TERMINATED"
                /\ obj'[o].execution_count = obj[o].execution_count
                /\ current_task' = o => current_task = o
      ]_vars

\* C7 witness: a registered non-recoverable task is TERMINATED by the failure
\* of its handler (removal would have taken it out of all_tasks_), and the
\* dispatcher has since started another task's handler.
C7_Witness ==
    /\ pc = "handler"
    /\ \E o \in AllTasks :
         /\ o # current_task
         /\ ~obj[o].recoverable
         /\ obj[o].state = "TERMINATED"
         /\ obj[o].execution_count > 0

\* C9: base_priority is in 1..99 and dynamic_priority in base_priority..99,
\* for a task created with any priority argument in 0..255.
C9_PriorityRange ==
    \A o \in Objs :
        /\ 1 <= obj[o].base_priority
        /\ obj[o].base_priority <= MAX_PRIORITY
        /\ obj[o].base_priority <= obj[o].dynamic_priority
        /\ obj[o].dynamic_priority <= MAX_PRIORITY

\* C10: with base priority b and N deadline misses, dynamic_priority is
\* min(99, b + floor(b * 5 * N / 100)) when N > 0, and b when N = 0.
C10_BoostFormula ==
    \A o \in Objs :
        LET b == obj[o].base_priority
            n == obj[o].deadline_misses
        IN  obj[o].dynamic_priority =
                IF n > 0 THEN Min(MAX_PRIORITY, b + ((b * 5 * n) \div 100)) ELSE b

\* C10 witness: the task of base priority 50 after 20 misses, at priority 99
\* (and it had priority 55 after 2, by C10_BoostFormula).
C10_Witness ==
    /\ obj[1].base_priority = 50
    /\ obj[1].deadline_misses = 20
    /\ obj[1].dynamic_priority = MAX_PRIORITY

\* C5: in scenario S4, when the dispatcher has handled the k-th failure of F
\* (k = execution_count), F is READY, revived by attemptTaskRecovery, with
\* recovery_attempts = k for k in 1..3, and F is TERMINATED for k = 4.
C5_RecoveryCapScenario ==
    (pc = "resched" /\ disp.threw)
    => LET k == obj[current_task].execution_count
       IN  /\ k <= MAX_RECOVERY_ATTEMPTS
              => /\ obj[current_task].state = "READY"
                 /\ disp.recovery = "revived"
                 /\ recovery_attempts = k
           /\ k = MAX_RECOVERY_ATTEMPTS + 1
              => obj[current_task].state = "TERMINATED"

\* C8: recovery_attempts never exceeds MAX_RECOVERY_ATTEMPTS, and the step in
\* which attemptTaskRecovery is called with the counter at
\* MAX_RECOVERY_ATTEMPTS refuses: the task is left TERMINATED, the ready set
\* and the counter are unchanged.
C8_RecoveryBudget ==
    [][ /\ recovery_attempts' <= MAX_RECOVERY_ATTEMPTS
        /\ (/\ pc = "relock" /\ pc' = "resched"
            /\ obj[current_task].state = "TERMINATED"
            /\ obj[current_task].recoverable
            /\ recovery_attempts = MAX_RECOVERY_ATTEMPTS)
           => /\ disp'.recovery = "refused"
              /\ obj'[current_task].state = "TERMINATED"
              /\ ready_queue' = ready_queue
              /\ recovery_attempts' = recovery_attempts
      ]_vars

\* C8 witness: a fourth recovery has been asked for and refused, the counter
\* standing at MAX_RECOVERY_ATTEMPTS and the task still TERMINATED.
C8_Witness ==
    /\ pc = "resched"
    /\ disp.recovery = "refused"
    /\ recovery_attempts = MAX_RECOVERY_ATTEMPTS
    /\ obj[current_task].state = "TERMINATED"

\* C11: a task constructed with deadline 0 and period 0 never has a deadline
\* miss recorded, by the monitor or by checkDeadlines, and its dynamic
\* priority stays its base priority.
C11_NoDeadlineNoMiss ==
    \A o \in Objs :
        obj[o].deadline = 0
        => /\ obj[o].deadline_misses = 0
           /\ obj[o].dynamic_priority = obj[o].base_priority

\* C11 witness: a task without deadline has been dispatched, and in the same
\* run the scheduler has recorded a miss for a task that has a deadline.
C11_Witness ==
    \E a, b \in AllTasks :
        /\ obj[a].deadline = 0
        /\ obj[a].execution_count > 0
        /\ obj[b].deadline > 0
        /\ obj[b].deadline_misses > 0

\* C12: a hint set by yield() during a handler is still pending when the
\* dispatcher has re-locked after that handler, and the dispatcher's
\* scheduling step for that dispatch is the reschedule: the current task is
\* requeued if it is READY, current_task_ and the hint are cleared.
C12_YieldHintHonoured ==
    [][ /\ (pc = "relock" /\ pc' = "resched" /\ disp.yielded)
           => force_reschedule'
        /\ (pc = "resched" /\ pc' # "resched" /\ disp.started /\ disp.yielded)
           => /\ current_task' = NULL
              /\ ~force_reschedule'
              /\ ready_queue' = IF obj[current_task].state = "READY"
                                THEN Push(ready_queue, current_task)
                                ELSE ready_queue
      ]_vars

\* C13 as stated: in scenario S2, when the last handler run called yield()
\* while D was READY (that handler was C's: a handler's own task is not in
\* yielded_to), the handler the dispatcher starts next is D's; as one thread
\* runs all the handlers, C's is then not started again before D's has
\* returned.
C13_YieldThenOther ==
    [][ (/\ pc = "exec" /\ pc' = "handler"
         /\ tasks["D"] # NULL
         /\ tasks["D"] \in disp.yielded_to)
        => current_task = tasks["D"]
      ]_vars

\* C13 amended: the same, as long as C's dynamic priority is below D's, that
\* is as long as deadline misses have not boosted C above D.
C13_YieldThenOtherUnboosted ==
    [][ (/\ pc = "exec" /\ pc' = "handler"
         /\ tasks["C"] # NULL
         /\ tasks["D"] # NULL
         /\ tasks["D"] \in disp.yielded_to
         /\ obj[tasks["C"]].dynamic_priority < obj[tasks["D"]].dynamic_priority)
        => current_task = tasks["D"]
      ]_vars

\* C13 witness: C's handler has yielded with D READY and has returned, and
\* the dispatcher is about to enter execute() for D.
C13_Witness ==
    /\ pc = "exec"
    /\ tasks["C"] # NULL
    /\ tasks["D"] # NULL
    /\ tasks["D"] \in disp.yielded_to
    /\ current_task = tasks["D"]
    /\ obj[tasks["C"]].execution_count > 0
    /\ obj[tasks["C"]].dynamic_priority < obj[tasks["D"]].dynamic_priority

\* C14: in scenario S1 every handler start that finds B not yet executed is
\* the start of B's handler: the first handler started is B's, and A's is
\* started only when B's first execute() has returned.
C14_HighestFirst ==
    [][ (/\ pc = "exec" /\ pc' = "handler"
         /\ obj[tasks["B"]].execution_count = 0)
        => current_task = tasks["B"]
      ]_vars

\* C14 witness: A's handler is running, after B's first execution.
C14_Witness ==
    /\ pc = "handler"
    /\ preemption_mode = "HYBRID"
    /\ current_task = tasks["A"]
    /\ obj[tasks["A"]].execution_count = 1
    /\ obj[tasks["B"]].execution_count = 1

\* C15: whenever stop() has been called on a running scheduler, both threads
\* eventually exit and stop() returns.
C15_StopReturns ==
    (kernel_mutex = "stop") ~> (kernel_mutex = "free" /\ pc = "none" /\ mon = "none")

\* Each registered name is held by one task of that name, and no two entries
\* of the scheduler's task list carry the same name.
NamesUnique ==
    /\ \A n \in Registry : tasks[n] # NULL => obj[tasks[n]].name = n
    /\ \A i, j \in 1..Len(all_tasks) :
         obj[all_tasks[i]].name = obj[all_tasks[j]].name => i = j

\* C16: create_task with a name that is already in the registry returns a
\* null handle and changes nothing: the registry, the scheduler's task list,
\* the ready set and the symbol map are what they were, and names stay unique.
C16_DuplicateCreateRefused ==
    [][ \A n \in Names :
          (ret' # ret /\ ret'.op = "createTask" /\ ret'.name = n /\ tasks[n] # NULL)
          => /\ ret'.value = NULL
             /\ ret'.outcome = "returned"
             /\ tasks' = tasks
             /\ all_tasks' = all_tasks
             /\ ready_queue' = ready_queue
             /\ task_symbols' = task_symbols
             /\ obj' = obj
             /\ NamesUnique' ]_vars

\* C16 witness: create_task has just been refused for a registered name while
\* the task of that name waits in the ready set.
C16_Witness ==
    \E n \in Names :
        /\ ret = Returned("createTask", n, NULL)
        /\ tasks[n] # NULL
        /\ tasks[n] \in BagToSet(ready_queue)

\* C17: when remove_task(name) returns for a registered name, the registry
\* has no entry for the name and the scheduler's task list holds neither the
\* removed task nor any task of that name; get_task(name) then returns
\* null; and create_task(name, ...) on the free name returns a task that did
\* not exist before, READY, never executed, registered and listed.
C17_RemoveThenRecreate ==
    [][ \A n \in Names :
          /\ (ret' # ret /\ ret'.op = "removeTask" /\ ret'.name = n /\ tasks[n] # NULL)
             => /\ tasks'[n] = NULL
                /\ \A i \in 1..Len(all_tasks') :
                     all_tasks'[i] # tasks[n] /\ obj'[all_tasks'[i]].name # n
          /\ (ret' # ret /\ ret'.op = "getTask" /\ ret'.name = n /\ tasks[n] = NULL)
             => ret'.value = NULL /\ ret'.outcome = "returned"
          /\ (ret' # ret /\ ret'.op = "createTask" /\ ret'.name = n /\ tasks[n] = NULL)
             => /\ ret'.value \notin Objs
                /\ ret'.value \in 1..Len(obj')
                /\ obj'[ret'.value].name = n
                /\ obj'[ret'.value].state = "READY"
                /\ obj'[ret'.value].execution_count = 0
                /\ tasks'[n] = ret'.value
                /\ \E i \in 1..Len(all_tasks') : all_tasks'[i] = ret'.value ]_vars

\* C17 witness: a name whose earlier task was removed has been given to a new
\* task by create_task, and the new task is READY in the ready set.
C17_Witness ==
    \E n \in Names :
        /\ ret.op = "createTask" /\ ret.name = n /\ ret.value = tasks[n]
        /\ tasks[n] # NULL
        /\ \E o \in Removed : obj[o].name = n /\ o < tasks[n]
        /\ obj[tasks[n]].state = "READY"
        /\ tasks[n] \in BagToSet(ready_queue)

\* C18: for a task in any state it can be in, suspend followed at once by
\* resume leaves it READY if and only if it was not TERMINATED before; a
\* TERMINATED task is left as it is by both calls; resume alone changes
\* nothing in a task that is not SUSPENDED; and the two calls write no field
\* but the state.
C18_SuspendThenResume ==
    \A o \in Objs :
        LET t == obj[o]
            u == resume(suspend(t))
        IN  /\ (u.state = "READY") <=> (t.state # "TERMINATED")
            /\ t.state = "TERMINATED" => suspend(t) = t /\ u = t
            /\ t.state # "SUSPENDED" => resume(t) = t
            /\ u = [t EXCEPT !.state = u.state]

\* C18 witness: a task that has run is SUSPENDED by a call of suspend, and
\* another task is TERMINATED.
C18_Witness ==
    \E o, p \in Objs :
        /\ obj[o].state = "SUSPENDED"
        /\ obj[o].execution_count > 0
        /\ obj[p].state = "TERMINATED"

\* C19: get_task, remove_task, suspend_task and resume_task called with a
\* name that is not in the registry return to the caller (a null handle from
\* get_task) and leave the registry, the scheduler's task list, the ready set
\* and the state of every task as they were.
C19_UnknownNameIsNoOp ==
    [][ \A n \in Names :
          (/\ ret' # ret
           /\ ret'.name = n
           /\ ret'.op \in {"getTask", "removeTask", "suspendTask", "resumeTask"}
           /\ tasks[n] = NULL)
          => /\ ret'.outcome = "returned"
             /\ ret'.value = NULL
             /\ tasks' = tasks
             /\ all_tasks' = all_tasks
             /\ ready_queue' = ready_queue
             /\ \A o \in Objs : obj'[o].state = obj[o].state ]_vars

\* A float as a count of 2^-16ths, truncated.
Fixed16(u) == F32ToInt([m |-> u.m, e |-> u.e + 16])

\* u is 100 * run / total to within the rounding of two float operations
\* (less than 2^-16 for a value up to 100), and 0 when total is 0.
IsPercentage(u, run, total) ==
    IF total = 0 THEN u = F32Zero
    ELSE Fixed16(u) - (100 * run * (2 ^ 16)) \div total \in -1..1

\* C20: cpu_utilization is within [0, 100] in every state; it is 0 as long as
\* no task has been dispatched; when the dispatcher has finished a dispatch
\* (it has re-locked and recomputed the value) cpu_utilization equals, as a
\* float, 100 * total_run_time / (total_run_time + total_idle_time), and 0
\* when that sum is 0; both totals are non-negative.
C20_CpuUtilization ==
    /\ total_run_time >= 0
    /\ total_idle_time >= 0
    /\ cpu_utilization.m >= 0
    /\ F32Le(cpu_utilization, F32FromInt(100))
    /\ Executions(obj) = 0 => cpu_utilization = F32Zero
    /\ (pc = "resched" /\ disp.started)
       => IsPercentage(cpu_utilization, total_run_time,
                       total_run_time + total_idle_time)

\* C20 witness: a dispatch has just been accounted for after both run time
\* and idle time have accumulated, and the utilization is strictly between
\* 0 and 100.
C20_Witness ==
    /\ pc = "resched" /\ disp.started
    /\ total_run_time > 0
    /\ total_idle_time > 0
    /\ cpu_utilization # F32Zero
    /\ cpu_utilization # F32FromInt(100)

\* C21: in every step of the dispatcher, the monitor and the Kernel, no
\* task's execution_count decreases; the step in which the dispatcher starts
\* a task's handler raises that task's execution_count by exactly 1; and no
\* other step and no other task's count changes, so the count is the number
\* of times the task's handler was started.
C21_ExecutionCount ==
    [][ \A o \in Objs :
          /\ obj'[o].execution_count >= obj[o].execution_count
          /\ (pc = "exec" /\ pc' = "handler" /\ o = current_task)
             => obj'[o].execution_count = obj[o].execution_count + 1
          /\ obj'[o].execution_count # obj[o].execution_count
             => pc = "exec" /\ pc' = "handler" /\ o = current_task ]_vars

\* C21 witness: a task's handler has been started twice, and a second task
\* has not run.
C21_Witness ==
    \E o, p \in Objs :
        /\ obj[o].execution_count = 2
        /\ obj[p].execution_count = 0
        /\ pc = "handler" /\ current_task = o

\* C22: for a task with any base priority and any number of deadline misses,
\* whether dynamic_priority holds what the last call left, the base priority
\* or an extreme value, update_priority writes no field but
\* dynamic_priority, and a second and a third call in a row (as repeated
\* adjust_priorities makes them) leave the task as the first call left it.
C22_UpdatePriorityIdempotent ==
    \A o \in Objs :
      \A d \in {0, obj[o].base_priority, obj[o].dynamic_priority, MAX_PRIORITY,
                UINT8_MAX} :
        LET t == [obj[o] EXCEPT !.dynamic_priority = d]
            u == updatePriority(t)
        IN  /\ u = [t EXCEPT !.dynamic_priority = u.dynamic_priority]
            /\ updatePriority(u) = u
            /\ updatePriority(updatePriority(u)) = u

\* C22 witness: update_priority has raised a task with deadline misses above
\* its base priority and below the cap.
C22_Witness ==
    \E o \in Objs :
        /\ obj[o].deadline_misses > 1
        /\ obj[o].dynamic_priority > obj[o].base_priority
        /\ obj[o].dynamic_priority < MAX_PRIORITY

\* C23: in every state, each task's average_execution_time is
\* floor(total_execution_time / execution_count) when execution_count > 0
\* and 0 otherwise; the states in which a handler is executing are included.
C23_AverageExecutionTime ==
    \A o \in Objs :
        obj[o].average_execution_time =
            IF obj[o].execution_count > 0
            THEN obj[o].total_execution_time \div obj[o].execution_count
            ELSE 0

\* C24: whenever the dispatcher of a running scheduler has come to the end
\* of an iteration in which the handler returned, with a registered task
\* READY, the iteration completes: the dispatcher gets back to the head of
\* its loop, also when the periodic priority adjustment is due in that
\* iteration.
C24_IterationCompletes ==
    (/\ pc = "resched"
     /\ is_running
     /\ ~disp.threw
     /\ \E o \in AllTasks : obj[o].state = "READY")
    ~> (pc = "top")

\* C25: in the step in which the dispatcher selects, the task it gets is
\* READY at that moment; every entry the queue has lost in the step is the
\* task returned or an entry that is not READY; and the dispatcher goes idle
\* (nothing returned) only if no task of the scheduler's list is READY, the
\* queue being left empty.
C25_SelectsReadyOrNull ==
    [][ (pc = "top" /\ pc' \in {"setrun", "idle"})
        => /\ pc' = "setrun"
              => /\ current_task' # NULL
                 /\ obj[current_task'].state = "READY"
                 /\ obj'[current_task'].state = "READY"
           /\ \A o \in BagToSet(ready_queue) :
                CopiesIn(o, ready_queue') < CopiesIn(o, ready_queue)
                => o = current_task' \/ obj[o].state # "READY"
           /\ pc' = "idle"
              => /\ current_task' = NULL
                 /\ ready_queue' = EmptyBag
                 /\ \A o \in AllTasks : obj[o].state # "READY" ]_vars

\* C25 witness: the dispatcher has selected a task while another registered
\* task, suspended before it ever ran, has been popped and dropped from the
\* queue.
C25_Witness ==
    /\ pc = "setrun"
    /\ \E o \in AllTasks :
         /\ o # current_task
         /\ obj[o].state = "SUSPENDED"
         /\ obj[o].execution_count = 0
         /\ ~BagIn(o, ready_queue)

\* C26: at the end of a dispatcher iteration, a reschedule (last_schedule_time
\* set to now, the current task pushed back if READY, current_task cleared)
\* is made on time-slice expiry only if the current task is PREEMPTIVE and
\* the mode is TIME_SLICE or HYBRID; with a COOPERATIVE current task, or in
\* mode NONE or PRIORITY, and no reschedule hint pending, the current task,
\* the queue and last_schedule_time are left as they are.  No other step
\* of the two threads writes last_schedule_time; start() sets it to now.
C26_TimeSliceOnlyPreemptive ==
    [][ LET rescheduled ==
                /\ last_schedule_time' = now
                /\ current_task' = NULL
                /\ ~force_reschedule'
                /\ ready_queue' =
                       IF current_task # NULL /\ obj[current_task].state = "READY"
                       THEN Push(ready_queue, current_task)
                       ELSE ready_queue
            untouched ==
                UNCHANGED <<last_schedule_time, current_task, ready_queue,
                            force_reschedule>>
        IN  IF pc = "resched" /\ pc' # "resched"
            THEN /\ rescheduled \/ untouched
                 /\ force_reschedule => rescheduled
                 /\ (/\ ~force_reschedule
                     /\ \/ current_task = NULL
                        \/ obj[current_task].policy = "COOPERATIVE"
                        \/ preemption_mode \in {"NONE", "PRIORITY"})
                    => untouched
            ELSE last_schedule_time' # last_schedule_time
                    => /\ ~is_running /\ is_running'
                       /\ last_schedule_time' = now ]_vars

\* C26 witness: in TIME_SLICE mode the PREEMPTIVE task D has run, its time
\* slice had expired at the end of the iteration, and the dispatcher has
\* reset last_schedule_time, pushed D back and cleared current_task.
C26_Witness ==
    /\ pc = "top"
    /\ preemption_mode = "TIME_SLICE"
    /\ last_schedule_time = now
    /\ current_task = NULL
    /\ tasks["D"] # NULL
    /\ obj[tasks["D"]].execution_count > 0
    /\ BagIn(tasks["D"], ready_queue)

\* The dynamic priority the monitor reads for the current task when it tests
\* entry i of the task list in a tick: the tick has by then updated the
\* entries up to i, the current task among them or not.
CurrentPriorityAt(i) ==
    IF \E j \in 1..i : all_tasks[j] = current_task
    THEN obj'[current_task].dynamic_priority
    ELSE obj[current_task].dynamic_priority

\* C27: a tick of the deadline monitor raises the reschedule hint only if
\* there is a current task, the mode is PRIORITY or HYBRID, and some
\* registered task is READY, has its deadline approaching after the tick's
\* update and has a dynamic priority strictly greater than the current
\* task's; in NONE or TIME_SLICE mode, or without a current task, no tick
\* raises it.
C27_HintOnlyWhenWarranted ==
    [][ (mon = "sleep" /\ mon' = "check" /\ ~force_reschedule /\ force_reschedule')
        => /\ current_task # NULL
           /\ preemption_mode \in {"PRIORITY", "HYBRID"}
           /\ \E i \in 1..Len(all_tasks) :
                LET o == all_tasks[i]
                IN  /\ isDeadlineApproaching(obj'[o])
                    /\ obj[o].state = "READY"
                    /\ obj'[o].dynamic_priority > CurrentPriorityAt(i) ]_vars

\* C27 witness: the monitor has raised the hint, no handler having yielded:
\* the current task D is outranked by the READY task C, whose deadline is
\* approaching.
C27_Witness ==
    /\ force_reschedule
    /\ mon = "check"
    /\ ~disp.yielded
    /\ pc # "handler"
    /\ current_task # NULL
    /\ \E o \in AllTasks :
         /\ isDeadlineApproaching(obj[o])
         /\ obj[o].state = "READY"
         /\ obj[o].dynamic_priority > obj[current_task].dynamic_priority

\* C28: no tick of the deadline monitor raises the reschedule hint while the
\* current task is COOPERATIVE.
C28_NoHintAgainstCooperative ==
    [][ (mon = "sleep" /\ mon' = "check" /\ ~force_reschedule /\ force_reschedule')
        => (current_task = NULL \/ obj[current_task].policy # "COOPERATIVE") ]_vars

\* C29: while the dispatcher is between releasing the lock for a task and
\* re-taking it after the task's execute() (the state not yet RUNNING, the
\* handler running, the task suspended in its handler or not), no tick of
\* the monitor writes that task's deadline_counter or deadline_misses.
C29_MonitorSkipsDispatchedTask ==
    [][ (mon = "sleep" /\ mon' = "check" /\ pc \in {"setrun", "exec", "handler"})
        => /\ obj'[current_task].deadline_counter = obj[current_task].deadline_counter
           /\ obj'[current_task].deadline_misses = obj[current_task].deadline_misses ]_vars

\* C30: a call updateDeadlineCounter(delta) on a task with a deadline adds
\* delta to deadline_counter and, if the sum exceeds the deadline, records
\* exactly one miss and resets the counter to 0, however large delta is; on a
\* task without deadline it changes nothing.  Whatever the monitor's tick
\* does to a task is the result of one such call, and in every state
\* 0 <= deadline_counter <= deadline.
C30_DeadlineCounter ==
    [][ \A o \in Objs :
          LET t == obj[o]
              u == obj'[o]
          IN  /\ 0 <= u.deadline_counter
              /\ u.deadline_counter <= u.deadline
              /\ (mon = "sleep" /\ mon' = "check")
                 => /\ \A delta \in {0, 1, t.deadline + 1, 3 * t.deadline + 2} :
                         LET v == updateDeadlineCounter(t, delta)
                             sum == t.deadline_counter + delta
                         IN  /\ t.deadline > 0 /\ sum > t.deadline
                                => /\ v.deadline_counter = 0
                                   /\ v.deadline_misses = t.deadline_misses + 1
                             /\ t.deadline > 0 /\ sum <= t.deadline
                                => /\ v.deadline_counter = sum
                                   /\ v.deadline_misses = t.deadline_misses
                             /\ t.deadline = 0 => v = t
                    /\ u.deadline_misses \in {t.deadline_misses, t.deadline_misses + 1}
                    /\ u.deadline_misses = t.deadline_misses + 1
                       => u.deadline_counter = 0
                    /\ u.deadline_misses = t.deadline_misses
                       => \/ u.deadline_counter = t.deadline_counter
                          \/ /\ u.deadline_counter > t.deadline_counter
                             /\ t.deadline > 0
                    /\ t.deadline = 0 => u = t ]_vars

\* C30 witness: the monitor's tick has just recorded the first miss of a task
\* that has a deadline and was never dispatched, and has reset its counter.
C30_Witness ==
    /\ mon = "check"
    /\ \E o \in AllTasks :
         /\ obj[o].deadline > 0
         /\ obj[o].execution_count = 0
         /\ obj[o].deadline_misses = 1
         /\ obj[o].deadline_counter = 0

\* C31: in every iteration of the dispatcher, checkDeadlines records exactly
\* one miss for each registered task that has a deadline and a period, has
\* been dispatched at least once, and whose last dispatch lies more than
\* period + deadline whole milliseconds back, whatever its deadline_counter
\* is; it records none for any other task.
C31_CheckDeadlines ==
    [][ (pc = "top" /\ pc' \in {"setrun", "idle"})
        => \A o \in Objs :
             LET t == obj[o]
                 overdue == /\ o \in AllTasks
                            /\ t.deadline > 0
                            /\ t.period > 0
                            /\ t.execution_count > 0
                            /\ (now - t.last_execution) \div MS > t.period + t.deadline
             IN  obj'[o].deadline_misses =
                     t.deadline_misses + (IF overdue THEN 1 ELSE 0) ]_vars

\* C31 witness: both tasks were dispatched once, at time 0, and the dispatcher
\* has just made its third selection, so that checkDeadlines has recorded at
\* most one miss; the task with a deadline has two on record, the other one
\* recorded by the monitor for the same interval.
C31_Witness ==
    /\ pc = "setrun"
    /\ \E a, b \in AllTasks :
         /\ a # b
         /\ obj[a].execution_count = 1
         /\ obj[a].last_execution = 0
         /\ obj[a].deadline = 0
         /\ obj[b].execution_count = 1
         /\ obj[b].last_execution = 0
         /\ obj[b].deadline > 0
         /\ obj[b].deadline_misses = 2

\* C32: the run time and the idle time accounted for never add up to more
\* than the time elapsed since the Scheduler was constructed (time 0), the
\* idle time being that of the idle waits only.
C32_IdleTimeOnlyIdleWaits ==
    total_run_time + total_idle_time <= now

\* C33: from the moment the dispatcher has unlocked for a task until it
\* re-locks after the task's execute(), the scheduler mutex is free, and
\* each of addTask (through Kernel::createTask), removeTask (through
\* Kernel::removeTask), findTask, getTaskStateVisualization and the monitor's
\* tick can be taken at once, as far as the dispatcher is concerned: none
\* waits for the handler to return.
C33_HandlerRunsUnlocked ==
    pc \in {"setrun", "exec", "handler"}
    => /\ scheduler_mutex = "free"
       /\ \A n \in Names :
            /\ ENABLED SchedulerFindTask(n)
            /\ (kernel_mutex = "free" /\ tasks[n] = NULL)
               => ENABLED KernelCreateTask(n, S1Profile[n])
            /\ (kernel_mutex = "free" /\ tasks[n] # NULL)
               => ENABLED KernelRemoveTask(n)
       /\ ENABLED GetTaskStateVisualization
       /\ mon = "sleep" => ENABLED MonTick(0)

\* C33 witness: B's handler is still running, and since it began A was added,
\* the monitor has ticked, and the visualization just returned shows B
\* RUNNING and A.
C33_Witness ==
    /\ pc = "handler"
    /\ ~Unused("A")
    /\ last_check_time # Epoch
    /\ ret.op = "getTaskStateVisualization"
    /\ Len(ret.text) = 2
    /\ \E i \in 1..2 : ret.text[i].name = "B" /\ ret.text[i].state = "RUNNING"

\* C34: at most one of addTask, removeTask and adjustPriorities (called from
\* outside or by the dispatcher) has begun and not ended, and the scheduler
\* mutex is held as long as one has.
C34_AdjustExcludesMutation ==
    /\ Cardinality(mid) <= 1
    /\ mid # {} => scheduler_mutex # "free"

\* C34 witness: the dispatcher's periodic adjustPriorities is mid-way, both
\* tasks having been added and one of them removed again.
C34_Witness ==
    /\ pc = "adjust"
    /\ mid = {Mid("adjustPriorities", "", NULL)}
    /\ Len(obj) = 2
    /\ Len(all_tasks) = 1

\* C35: every call of Kernel::suspendTask and Kernel::resumeTask, with a name
\* that is registered or not, returns to its caller: it neither blocks nor
\* leaves by an exception.
C35_ByNameCallsReturn ==
    [][ (ret' # ret /\ ret'.op \in {"suspendTask", "resumeTask"})
        => ret'.outcome = "returned" ]_vars

\* C36: no task has more than one entry in the ready queue.
C36_NoDuplicateReadyEntries ==
    \A o \in BagToSet(ready_queue) : CopiesIn(o, ready_queue) <= 1

\* C37: whenever no Kernel operation holds the Kernel mutex, the registry and
\* the scheduler's task list hold the same tasks under the same names: every
\* registered name maps to a listed task of that name, every listed task is
\* the one registered under its name, and no two listed tasks share a name.
C37_RegistryMatchesTaskList ==
    kernel_mutex = "free"
    => /\ \A n \in Registry :
            tasks[n] # NULL => /\ tasks[n] \in AllTasks
                               /\ obj[tasks[n]].name = n
       /\ \A o \in AllTasks : /\ obj[o].name \in Registry
                              /\ tasks[obj[o].name] = o
       /\ \A i, j \in 1..Len(all_tasks) :
            obj[all_tasks[i]].name = obj[all_tasks[j]].name => i = j

\* C37 witness: a name was registered, removed and registered again, and a
\* further create_task with it has just failed; a second name is free.
C37_Witness ==
    /\ kernel_mutex = "free"
    /\ \E n \in Names :
         /\ ret = Returned("createTask", n, NULL)
         /\ tasks[n] # NULL
         /\ \E o \in Objs \ AllTasks : obj[o].name = n
    /\ \E n \in Names : tasks[n] = NULL

\* C38: the registered tasks (26 at most) have symbols, which are letters and
\* pairwise distinct.
C38_SymbolsDistinct ==
    Len(all_tasks) <= SYMBOLS
    => \A o, p \in AllTasks :
         /\ o \in DOMAIN task_symbols
         /\ task_symbols[o] \in 1..SYMBOLS
         /\ o # p => task_symbols[o] # task_symbols[p]

\* C39: for start() and stop() called through the Kernel, at most one
\* dispatcher thread and at most one deadline-monitor thread exist at any time
\* (the thread counts agree with the positions of the two threads); start()
\* on a running scheduler and stop() on a stopped scheduler change neither
\* is_running nor any thread; a start() on a stopped scheduler finds no
\* thread left and spawns exactly one dispatcher and one monitor.
C39_OnePairOfThreads ==
    [][ /\ threads'.scheduler = (IF pc' \in {"none", "exited"} THEN 0 ELSE 1)
        /\ threads'.monitor = (IF mon' \in {"none", "exited"} THEN 0 ELSE 1)
        /\ (ret' # ret /\ ret'.op \in {"start", "stop"})
              => /\ ret'.outcome = "returned"
                 /\ <<is_running, pc, mon, threads, kernel_mutex>>'
                      = <<is_running, pc, mon, threads, kernel_mutex>>
        /\ (~is_running /\ is_running')
              => /\ threads.scheduler = 0 /\ threads.monitor = 0
                 /\ threads' = [scheduler |-> 1, monitor |-> 1,
                                spawned |-> threads.spawned + 2]
                 /\ pc' = "top" /\ mon' = "check"
        /\ (threads'.spawned # threads.spawned) => (~is_running /\ is_running')
      ]_vars

\* The scheduler was started, stopped and started again, the second pair of
\* threads is the only one there is, and a further start() has returned.
C39_Witness ==
    /\ is_running
    /\ threads = [scheduler |-> 1, monitor |-> 1, spawned |-> 4]
    /\ ret = Returned("start", "", NULL)
    /\ pc \notin {"none", "exited", "deadlocked", "aborted"}

=============================================================================
